---- MODULE Spec2Model ----
(***************************************************************************)
(* WebDoc agent: the event / approval rendezvous of Agent, the risk        *)
(* classifier, the NetworkRecorder capture accumulator, the session-level  *)
(* deduper of runAgent and the exploration loop exploreVisiblePages.       *)
(*                                                                         *)
(* Strings are sequences of one-character strings, so that toLowerCase,    *)
(* regular-expression search and URL parsing are computed and not assumed. *)
(***************************************************************************)
EXTENDS Integers, Sequences, FiniteSets, TLC

(***************************************************************************)
(* Text                                                                    *)
(***************************************************************************)
UpperLetters == <<"A","B","C","D","E","F","G","H","I","J","K","L","M","N","O","P","Q","R","S","T","U","V","W","X","Y","Z">>
LowerLetters == <<"a","b","c","d","e","f","g","h","i","j","k","l","m","n","o","p","q","r","s","t","u","v","w","x","y","z">>

LowerChar(c) ==
  IF \E i \in 1..26 : UpperLetters[i] = c
    THEN LowerLetters[CHOOSE i \in 1..26 : UpperLetters[i] = c]
    ELSE c

UpperChar(c) ==
  IF \E i \in 1..26 : LowerLetters[i] = c
    THEN UpperLetters[CHOOSE i \in 1..26 : LowerLetters[i] = c]
    ELSE c

\* String.prototype.toLowerCase / toUpperCase
toLowerCase(s) == [i \in 1..Len(s) |-> LowerChar(s[i])]
toUpperCase(s) == [i \in 1..Len(s) |-> UpperChar(s[i])]

\* s has the literal w at position i
HasAt(s, w, i) == i >= 1 /\ i + Len(w) - 1 <= Len(s) /\ SubSeq(s, i, i + Len(w) - 1) = w

\* an unanchored search for the literal w in s
Contains(s, w) == \E i \in 1..(Len(s) + 1) : HasAt(s, w, i)

\* String.prototype.endsWith
endsWith(s, w) == Len(w) <= Len(s) /\ SubSeq(s, Len(s) - Len(w) + 1, Len(s)) = w

\* first position >= i of s holding a character of the set cs, Len(s) + 1 if none
RECURSIVE FindAny(_, _, _)
FindAny(s, cs, i) ==
  IF i > Len(s) THEN Len(s) + 1
  ELSE IF s[i] \in cs THEN i
  ELSE FindAny(s, cs, i + 1)

T_https == <<"h","t","t","p","s",":","/","/">>
T_checkout == <<"c","h","e","c","k","o","u","t">>
T_payment == <<"p","a","y","m","e","n","t">>
T_order == <<"o","r","d","e","r">>
T_purchase == <<"p","u","r","c","h","a","s","e">>
T_billing == <<"b","i","l","l","i","n","g">>
T_subscription == <<"s","u","b","s","c","r","i","p","t","i","o","n">>
T_users == <<"/","u","s","e","r","s","/">>
T_delete == <<"/","d","e","l","e","t","e">>
T_accountclose == <<"/","a","c","c","o","u","n","t","/","c","l","o","s","e">>
T_accountdelete == <<"/","a","c","c","o","u","n","t","/","d","e","l","e","t","e">>
T_auth == <<"/","a","u","t","h","/">>
T_login == <<"/","l","o","g","i","n">>
T_logout == <<"/","l","o","g","o","u","t">>
T_register == <<"/","r","e","g","i","s","t","e","r">>
M_DELETE == <<"D","E","L","E","T","E">>
M_PUT == <<"P","U","T">>
M_PATCH == <<"P","A","T","C","H">>
M_GET == <<"G","E","T">>
M_POST == <<"P","O","S","T">>

(***************************************************************************)
(* Risk.ts                                                                 *)
(***************************************************************************)
\* /checkout|payment|order|purchase|billing|subscription/
FinancialKeywords == {T_checkout, T_payment, T_order, T_purchase, T_billing, T_subscription}
MatchesFinancial(lowerUrl) == \E w \in FinancialKeywords : Contains(lowerUrl, w)

\* /\/users\/[^/]+\/delete|\/account\/close|\/account\/delete/
MatchesAccountDeletion(lowerUrl) ==
  \/ \E i \in 1..Len(lowerUrl) :
       /\ HasAt(lowerUrl, T_users, i)
       /\ \E j \in (i + Len(T_users) + 1)..Len(lowerUrl) :
            /\ HasAt(lowerUrl, T_delete, j)
            /\ \A k \in (i + Len(T_users))..(j - 1) : lowerUrl[k] # "/"
  \/ Contains(lowerUrl, T_accountclose)
  \/ Contains(lowerUrl, T_accountdelete)

\* /\/auth\/|\/login|\/logout|\/register/
MatchesAuth(lowerUrl) == \E w \in {T_auth, T_login, T_logout, T_register} : Contains(lowerUrl, w)

\* a classifier that looks at the method before the URL
assessRisk_methodFirst(method, url) ==
  LET upperMethod == toUpperCase(method)
      lowerUrl == toLowerCase(url)
  IN  IF upperMethod = M_DELETE THEN "high"
      ELSE IF upperMethod = M_PUT \/ upperMethod = M_PATCH THEN "medium"
      ELSE IF MatchesFinancial(lowerUrl) THEN "high"
      ELSE IF MatchesAccountDeletion(lowerUrl) THEN "high"
      ELSE IF MatchesAuth(lowerUrl) THEN "medium"
      ELSE "low"

assessRisk(method, url) ==
  LET upperMethod == toUpperCase(method)
      lowerUrl == toLowerCase(url)
  IN  IF upperMethod = M_DELETE THEN "high"
      ELSE IF MatchesFinancial(lowerUrl) THEN "high"
      ELSE IF MatchesAccountDeletion(lowerUrl) THEN "high"
      ELSE IF upperMethod = M_PUT \/ upperMethod = M_PATCH THEN "medium"
      ELSE IF MatchesAuth(lowerUrl) THEN "medium"
      ELSE "low"

(***************************************************************************)
(* new URL(u): scheme "://" host [":" port] [path] ["?" query] ["#" frag]  *)
(***************************************************************************)
SchemeEnd(u) == FindAny(u, {":"}, 1)

\* new URL(u) throws for a string without an absolute scheme
ValidUrl(u) ==
  LET c == SchemeEnd(u)
  IN  /\ c > 1
      /\ HasAt(u, <<":", "/", "/">>, c)
      /\ \A i \in 1..(c - 1) : u[i] \notin {"/", "?", "#", ".", " "}
      /\ FindAny(u, {"/", "?", "#", ":"}, c + 3) > c + 3

HostStart(u) == SchemeEnd(u) + 3
HostEnd(u) == FindAny(u, {"/", "?", "#", ":"}, HostStart(u)) - 1

\* URL.hostname: the authority without the port, lower-cased
Hostname(u) == toLowerCase(SubSeq(u, HostStart(u), HostEnd(u)))

\* URL.pathname: from the first "/" after the authority up to "?" or "#";
\* "/" when the URL has no path
Pathname(u) ==
  LET p == FindAny(u, {"/", "?", "#"}, HostStart(u))
      e == FindAny(u, {"?", "#"}, HostStart(u)) - 1
  IN  IF p > Len(u) \/ u[p] # "/" THEN <<"/">> ELSE SubSeq(u, p, e)

(***************************************************************************)
(* Bounds                                                                  *)
(***************************************************************************)
MaxListeners == 3     \* length of the listener array
MaxPromises == 3      \* decision requests issued in one run
MaxRequests == 2      \* requests the page issues in one run

ListenerIds == 1..MaxListeners
ExecutionModes == {"EXECUTE", "OBSERVE_ONLY", "DOCUMENT_ONLY"}
ApprovalDecisions == {"yes", "no", "doc"}
ActionDecisions == {"yes", "no"}
NextStepsDecisions == {"actions", "network"}

(***************************************************************************)
(* The traffic of the page under observation                               *)
(***************************************************************************)
H_x == <<"x",".","c","o","m">>
H_www == <<"w","w","w",".","x",".","c","o","m">>
H_api == <<"a","p","i",".","x",".","c","o","m">>
H_cdn == <<"c","d","n",".","y",".","c","o","m">>
P_items == <<"/","a","p","i","/","i","t","e","m","s">>
P_track == <<"/","t","r","a","c","k">>

\* the url argument of runAgent
BaseUrl == T_https \o H_www \o <<"/">>

Urls == <<
  T_https \o H_x \o P_items \o <<"?","x","=","1">>,
  T_https \o H_x \o P_items \o <<"?","x","=","2">>,
  T_https \o H_x \o <<"/","a","p","i","/">> \o T_checkout,
  T_https \o H_x \o <<"/","a","p","i","/","p","r","o","f","i","l","e">>,
  T_https \o H_cdn \o P_track,
  T_https \o H_api \o T_login >>

\* what a request of the page looks like: method, url (an index of Urls),
\* resourceType, and whether the response is JSON or plain text
RequestKinds == <<
  [method |-> M_GET,   url |-> 1, resourceType |-> "xhr",    textBody |-> TRUE],
  [method |-> M_GET,   url |-> 2, resourceType |-> "fetch",  textBody |-> FALSE],
  [method |-> M_POST,  url |-> 3, resourceType |-> "xhr",    textBody |-> TRUE],
  [method |-> M_PATCH, url |-> 4, resourceType |-> "fetch",  textBody |-> FALSE],
  [method |-> M_GET,   url |-> 5, resourceType |-> "xhr",    textBody |-> FALSE],
  [method |-> M_GET,   url |-> 6, resourceType |-> "script", textBody |-> FALSE] >>

KindIds == 1..Len(RequestKinds)
\* assessRisk on each kind of request, computed once
RiskTable == [k \in KindIds |-> assessRisk(RequestKinds[k].method, Urls[RequestKinds[k].url])]
KindRisk(k) == RiskTable[k]

(***************************************************************************)
(* State                                                                   *)
(***************************************************************************)
VARIABLES
  \* Agent
  listeners,          \* Agent.listeners, in registration order
  resolver,           \* Agent.resolver: the parked promise, 0 when undefined
  actionResolver,     \* Agent.actionResolver
  nextStepsResolver,  \* Agent.nextStepsResolver
  mode,               \* Agent.mode
  \* the run
  script,             \* what each listener does when it is invoked
  promises,           \* every promise made by a request* method
  handlers,           \* every invocation of handleNetworkCall
  emitted,            \* the events the last operation emitted, with their receivers
  lastOp              \* the last operation and its argument

VARIABLES
  \* NetworkRecorder
  requests,           \* NetworkRecorder.requests: how many requests of each kind were recorded
  recorderActive,     \* NetworkRecorder.captureActive
  captureBaseDomain,  \* NetworkRecorder.captureBaseDomain, <<>> when null
  includeThirdParty,  \* NetworkRecorder.includeThirdParty
  capturedCalls,      \* NetworkRecorder.capturedCalls
  onCapture,          \* NetworkRecorder.onCapture is set
  \* runAgent
  captureActive,      \* let captureActive
  captureTimer,       \* let captureTimer is armed
  exploring,          \* let exploring
  captureUniqueKeys,  \* let captureUniqueKeys
  sessionCalls,       \* let sessionCalls
  phase,              \* "navigating" until startCLI and agent.onEvent(handleUserPrompt)
  \* App
  pendingApproval,    \* useState pendingApproval: the handler asking, 0 when null
  pendingSuggestion   \* useState pendingSuggestion

VARIABLES
  \* exploreVisiblePages
  xpc,                \* where the exploration run is suspended
  candidates,         \* const candidates
  orderedCandidates,  \* const orderedCandidates
  skipLabels,         \* const skipLabels
  cursor,             \* the candidate the visit loop is at
  explored,           \* let explored
  visited,            \* const visited
  pagesVisitedData,   \* const pagesVisitedData
  pagesExploredNames, \* let pagesExploredNames of runAgent
  callCountBefore,    \* const callCountBefore
  pageApis,           \* const pageApis
  pageUrl,            \* let pageUrl
  navigations,        \* forward navigations issued in this run
  completed,          \* forward navigations that returned without throwing
  failures,           \* forward navigations that threw
  overlapping,        \* the calls of exploreVisiblePages made while the run was suspended
  \* writeDocs
  docsStarted,        \* the calls of writeDocs that went on to generate the documents
  docsWritten         \* the calls of writeDocs that wrote the two files

VARIABLES
  \* FlowTracker
  flows,              \* FlowTracker.flows: the names in insertion order, each with its flow object
  flowObjects,        \* the Flow objects made by startFlow
  currentFlow,        \* FlowTracker.currentFlow: a flow object, 0 when null
  clock,              \* Date.now()
  \* a function applied to an argument
  input,              \* the function and its argument
  output              \* the value returned

agentVars == <<listeners, resolver, actionResolver, nextStepsResolver, mode>>
runVars == <<script, promises, handlers, emitted, lastOp>>
recVars == <<requests, recorderActive, captureBaseDomain, includeThirdParty, capturedCalls, onCapture>>
orchVars == <<captureActive, captureTimer, exploring, captureUniqueKeys, sessionCalls, phase>>
appVars == <<pendingApproval, pendingSuggestion>>
exploreVars == <<xpc, candidates, orderedCandidates, skipLabels, cursor, explored, visited,
                 pagesVisitedData, pagesExploredNames, callCountBefore, pageApis, pageUrl,
                 navigations, completed, failures, overlapping, docsStarted, docsWritten>>
unitVars == <<flows, flowObjects, currentFlow, clock, input, output>>
progVars == <<recVars, orchVars, appVars, exploreVars, unitVars>>
vars == <<agentVars, runVars, progVars>>

\* the program before browser.launch()
InitProg ==
  /\ requests = [k \in KindIds |-> 0]
  /\ recorderActive = FALSE
  /\ captureBaseDomain = <<>>
  /\ includeThirdParty = FALSE
  /\ capturedCalls = <<>>
  /\ onCapture = FALSE
  /\ captureActive = FALSE
  /\ captureTimer = FALSE
  /\ exploring = FALSE
  /\ captureUniqueKeys = {}
  /\ sessionCalls = <<>>
  /\ phase = "navigating"
  /\ pendingApproval = 0
  /\ pendingSuggestion = 0
  /\ xpc = "idle"
  /\ candidates = <<>>
  /\ orderedCandidates = <<>>
  /\ skipLabels = {}
  /\ cursor = 0
  /\ explored = 0
  /\ visited = {}
  /\ pagesVisitedData = <<>>
  /\ pagesExploredNames = <<>>
  /\ callCountBefore = 0
  /\ pageApis = <<>>
  /\ pageUrl = <<>>
  /\ navigations = 0
  /\ completed = 0
  /\ failures = 0
  /\ overlapping = 0
  /\ docsStarted = 0
  /\ docsWritten = 0
  /\ flows = <<>>
  /\ flowObjects = <<>>
  /\ currentFlow = 0
  /\ clock = 0
  /\ input = [fn |-> "none"]
  /\ output = "none"

Op(name, arg, p) == [op |-> name, arg |-> arg, p |-> p]

(***************************************************************************)
(* Agent.ts: onEvent / offEvent / emit                                     *)
(***************************************************************************)
NoScript == [do |-> "none", arg |-> 0]
Scripts == {NoScript} \cup [do : {"on", "off"}, arg : ListenerIds]

\* this.listeners.filter((l) => l !== cb)
Filter(ls, cb) == SelectSeq(ls, LAMBDA l : l # cb)

\* a loop that reads the length of the array at every step
ForEachBound_live(lenAtCall, arr) == Len(arr)

\* Array.prototype.forEach visits the indices below the length the array
\* had when forEach was called
ForEachBound(lenAtCall, arr) == lenAtCall

\* this.listeners.forEach((l) => l(event)): i is the next index, arr the
\* array object forEach iterates, cur the value of this.listeners, same
\* whether this.listeners is still that array object (push mutates it,
\* filter replaces it), inv the listeners invoked so far
RECURSIVE ForEach(_, _, _, _, _, _, _)
ForEach(scr, i, n, arr, cur, same, inv) ==
  IF i > ForEachBound(n, arr) \/ i > Len(arr)
    THEN [listeners |-> cur, invoked |-> inv]
    ELSE LET l == arr[i]
             b == scr[l]
         IN  IF b.do = "on" /\ Len(cur) < MaxListeners
               THEN ForEach(scr, i + 1, n, IF same THEN Append(arr, b.arg) ELSE arr,
                            Append(cur, b.arg), same, Append(inv, l))
             ELSE IF b.do = "off"
               THEN ForEach(scr, i + 1, n, arr, Filter(cur, b.arg), FALSE, Append(inv, l))
             ELSE ForEach(scr, i + 1, n, arr, cur, same, Append(inv, l))

\* emit(event) on the listener array ls
Dispatch(scr, ls) == ForEach(scr, 1, Len(ls), ls, ls, TRUE, <<>>)

Event(type, id, to) == [type |-> type, id |-> id, to |-> to]

(***************************************************************************)
(* Agent.ts: the decision rendezvous                                       *)
(***************************************************************************)
\* new Promise((resolve) => { this.resolver = resolve })
NewPromise(kind) == [kind |-> kind, state |-> "pending", value |-> "none"]

\* a rendezvous that keeps the resolver already parked
Park_keep(slot, p) == IF slot # 0 THEN slot ELSE p

\* the slot after `this.resolver = resolve`: the new resolver replaces
\* whatever was parked
Park(slot, p) == p

\* resolve(d) settles a pending promise and is ignored by a settled one
Settle(ps, p, d) ==
  IF ps[p].state = "pending"
    THEN [ps EXCEPT ![p] = [@ EXCEPT !.state = "resolved", !.value = d]]
    ELSE ps

\* a resolveApproval that leaves the resolver in the slot
ResolveSlot_keep(ps, slot, d) ==
  IF slot # 0
    THEN [promises |-> Settle(ps, slot, d), slot |-> slot]
    ELSE [promises |-> ps, slot |-> slot]

\* if (this.resolver) { this.resolver(decision); this.resolver = undefined; }
ResolveSlot(ps, slot, d) ==
  IF slot # 0
    THEN [promises |-> Settle(ps, slot, d), slot |-> 0]
    ELSE [promises |-> ps, slot |-> slot]

Pending(p) == promises[p].state = "pending"

\* the slot a kind of request parks its resolver in
SlotOf(kind) ==
  CASE kind = "approval" -> resolver
    [] kind = "action" -> actionResolver
    [] kind = "next_steps" -> nextStepsResolver

(***************************************************************************)
(* Specification of the listener array: a client that subscribes,          *)
(* unsubscribes and emits, with listeners that subscribe or unsubscribe    *)
(* while they are being dispatched to                                      *)
(***************************************************************************)
Scripted == {1, 2}

InitEmit ==
  /\ listeners = <<>>
  /\ resolver = 0 /\ actionResolver = 0 /\ nextStepsResolver = 0
  /\ mode = "OBSERVE_ONLY"
  /\ script \in {f \in [ListenerIds -> Scripts] : \A l \in ListenerIds \ Scripted : f[l] = NoScript}
  /\ promises = <<>>
  /\ handlers = <<>>
  /\ emitted = <<>>
  /\ lastOp = Op("init", 0, 0)
  /\ InitProg

onEvent(cb) ==
  /\ Len(listeners) < MaxListeners
  /\ listeners' = Append(listeners, cb)
  /\ emitted' = <<>>
  /\ lastOp' = Op("onEvent", cb, 0)
  /\ UNCHANGED <<resolver, actionResolver, nextStepsResolver, mode, script, promises, handlers, progVars>>

offEvent(cb) ==
  /\ listeners' = Filter(listeners, cb)
  /\ emitted' = <<>>
  /\ lastOp' = Op("offEvent", cb, 0)
  /\ UNCHANGED <<resolver, actionResolver, nextStepsResolver, mode, script, promises, handlers, progVars>>

emit ==
  LET d == Dispatch(script, listeners)
  IN  /\ listeners' = d.listeners
      /\ emitted' = <<Event("info", 0, d.invoked)>>
      /\ lastOp' = Op("emit", 0, 0)
      /\ UNCHANGED <<resolver, actionResolver, nextStepsResolver, mode, script, promises, handlers, progVars>>

NextEmit ==
  \/ \E cb \in ListenerIds : onEvent(cb)
  \/ \E cb \in ListenerIds : offEvent(cb)
  \/ emit

SpecEmit == InitEmit /\ [][NextEmit]_vars

(***************************************************************************)
(* Specification of the rendezvous: a client that issues and resolves      *)
(* requests of the three kinds, one plain listener subscribed              *)
(***************************************************************************)
InitRendezvous ==
  /\ listeners = <<1>>
  /\ resolver = 0 /\ actionResolver = 0 /\ nextStepsResolver = 0
  /\ mode = "OBSERVE_ONLY"
  /\ script = [l \in ListenerIds |-> NoScript]
  /\ promises = <<>>
  /\ handlers = <<>>
  /\ emitted = <<>>
  /\ lastOp = Op("init", 0, 0)
  /\ InitProg

requestApproval ==
  LET d == Dispatch(script, listeners)
      p == Len(promises) + 1
  IN  /\ Len(promises) < MaxPromises
      /\ listeners' = d.listeners
      /\ emitted' = <<Event("approval_required", p, d.invoked)>>
      /\ promises' = Append(promises, NewPromise("approval"))
      /\ resolver' = Park(resolver, p)
      /\ lastOp' = Op("requestApproval", 0, p)
      /\ UNCHANGED <<actionResolver, nextStepsResolver, mode, script, handlers, progVars>>

resolveApproval(decision) ==
  LET r == ResolveSlot(promises, resolver, decision)
  IN  /\ promises' = r.promises
      /\ resolver' = r.slot
      /\ emitted' = <<>>
      /\ lastOp' = Op("resolveApproval", decision, resolver)
      /\ UNCHANGED <<listeners, actionResolver, nextStepsResolver, mode, script, handlers, progVars>>

requestActionDecision ==
  LET d == Dispatch(script, listeners)
      p == Len(promises) + 1
  IN  /\ Len(promises) < MaxPromises
      /\ listeners' = d.listeners
      /\ emitted' = <<Event("action_suggestion", p, d.invoked)>>
      /\ promises' = Append(promises, NewPromise("action"))
      /\ actionResolver' = Park(actionResolver, p)
      /\ lastOp' = Op("requestActionDecision", 0, p)
      /\ UNCHANGED <<resolver, nextStepsResolver, mode, script, handlers, progVars>>

resolveActionDecision(decision) ==
  LET r == ResolveSlot(promises, actionResolver, decision)
  IN  /\ promises' = r.promises
      /\ actionResolver' = r.slot
      /\ emitted' = <<>>
      /\ lastOp' = Op("resolveActionDecision", decision, actionResolver)
      /\ UNCHANGED <<listeners, resolver, nextStepsResolver, mode, script, handlers, progVars>>

requestNextSteps ==
  LET d == Dispatch(script, listeners)
      p == Len(promises) + 1
  IN  /\ Len(promises) < MaxPromises
      /\ listeners' = d.listeners
      /\ emitted' = <<Event("next_steps", p, d.invoked)>>
      /\ promises' = Append(promises, NewPromise("next_steps"))
      /\ nextStepsResolver' = Park(nextStepsResolver, p)
      /\ lastOp' = Op("requestNextSteps", 0, p)
      /\ UNCHANGED <<resolver, actionResolver, mode, script, handlers, progVars>>

resolveNextSteps(decision) ==
  LET r == ResolveSlot(promises, nextStepsResolver, decision)
  IN  /\ promises' = r.promises
      /\ nextStepsResolver' = r.slot
      /\ emitted' = <<>>
      /\ lastOp' = Op("resolveNextSteps", decision, nextStepsResolver)
      /\ UNCHANGED <<listeners, resolver, actionResolver, mode, script, handlers, progVars>>

NextRendezvous ==
  \/ requestApproval
  \/ \E d \in ApprovalDecisions : resolveApproval(d)
  \/ requestActionDecision
  \/ \E d \in ActionDecisions : resolveActionDecision(d)
  \/ requestNextSteps
  \/ \E d \in NextStepsDecisions : resolveNextSteps(d)

SpecRendezvous == InitRendezvous /\ [][NextRendezvous]_vars

(***************************************************************************)
(* networkRecorder.ts                                                      *)
(***************************************************************************)
\* host.split(".")
RECURSIVE SplitDots(_)
SplitDots(s) ==
  LET d == FindAny(s, {"."}, 1)
  IN  IF d > Len(s) THEN <<s>>
      ELSE <<SubSeq(s, 1, d - 1)>> \o SplitDots(SubSeq(s, d + 1, Len(s)))

getBaseDomain(url) ==
  LET host == Hostname(url)
      parts == SelectSeq(SplitDots(host), LAMBDA x : x # <<>>)
  IN  IF Len(parts) <= 2 THEN host
      ELSE parts[Len(parts) - 1] \o <<".">> \o parts[Len(parts)]

\* a test of the suffix without the dot
isSameSite_suffix(host, baseDomain) == endsWith(host, baseDomain)

isSameSite(host, baseDomain) == host = baseDomain \/ endsWith(host, <<".">> \o baseDomain)

\* getBaseDomain(options.baseUrl) of startCapture, computed once
BaseDomain == getBaseDomain(BaseUrl)

\* the second test of shouldCapture, on the URL of the request
SameSitePolicy(url, thirdParty, baseDomain) ==
  IF ~thirdParty /\ baseDomain # <<>>
    THEN isSameSite(Hostname(url), baseDomain)
  ELSE TRUE

\* a filter without the resource-type test
shouldCapture_anyType(info, thirdParty, baseDomain) ==
  SameSitePolicy(Urls[info.url], thirdParty, baseDomain)

\* shouldCapture on the recorder's includeThirdParty and captureBaseDomain
shouldCapture(info, thirdParty, baseDomain) ==
  IF info.resourceType # "xhr" /\ info.resourceType # "fetch" THEN FALSE
  ELSE SameSitePolicy(Urls[info.url], thirdParty, baseDomain)

\* shouldCapture on each kind of request, computed once
ShouldCaptureTable ==
  [k \in KindIds, tp \in BOOLEAN, bd \in {<<>>, BaseDomain} |-> shouldCapture(RequestKinds[k], tp, bd)]

(***************************************************************************)
(* index.tsx: the session accumulator                                      *)
(***************************************************************************)
\* a key that keeps the whole URL, query string included
getApiKey_wholeUrl(call) == call.method \o <<" ">> \o Urls[call.url]

\* `${call.method} ${parsed.hostname}${parsed.pathname}`, or
\* `${call.method} ${call.url}` when new URL throws
getApiKey(call) ==
  LET u == Urls[call.url]
  IN  IF ValidUrl(u) THEN call.method \o <<" ">> \o Hostname(u) \o Pathname(u)
      ELSE call.method \o <<" ">> \o u

\* getApiKey on each method and url the page uses, computed once
CallShapes == {[method |-> RequestKinds[k].method, url |-> RequestKinds[k].url] : k \in KindIds}
ApiKeys == [c \in CallShapes |-> getApiKey(c)]
KeyOf(call) == ApiKeys[[method |-> call.method, url |-> call.url]]

\* a deduper that never finds the key
KeySeen_never(keys, key) == FALSE

\* captureUniqueKeys.has(key)
KeySeen(keys, key) == key \in keys

\* an accumulator that starts over with the first call of a capture session
onCapturedCall_perSession(call) ==
  LET key == KeyOf(call)
  IN  IF capturedCalls = <<>>
        THEN /\ captureUniqueKeys' = {key}
             /\ sessionCalls' = <<call>>
      ELSE IF ~KeySeen(captureUniqueKeys, key)
        THEN /\ captureUniqueKeys' = captureUniqueKeys \cup {key}
             /\ sessionCalls' = Append(sessionCalls, call)
        ELSE UNCHANGED <<captureUniqueKeys, sessionCalls>>

onCapturedCall(call) ==
  LET key == KeyOf(call)
  IN  IF ~KeySeen(captureUniqueKeys, key)
        THEN /\ captureUniqueKeys' = captureUniqueKeys \cup {key}
             /\ sessionCalls' = Append(sessionCalls, call)
        ELSE UNCHANGED <<captureUniqueKeys, sessionCalls>>

\* a startCaptureSession that does not install the listener
startCaptureSession_noListener ==
  /\ captureActive' = TRUE
  /\ recorderActive' = TRUE
  /\ capturedCalls' = <<>>
  /\ includeThirdParty' = FALSE
  /\ captureBaseDomain' = BaseDomain
  /\ onCapture' = onCapture

\* startCaptureSession past its guard, with NetworkRecorder.startCapture and
\* setCaptureListener
startCaptureSession ==
  /\ captureActive' = TRUE
  /\ recorderActive' = TRUE
  /\ capturedCalls' = <<>>
  /\ includeThirdParty' = FALSE
  /\ captureBaseDomain' = BaseDomain
  /\ onCapture' = TRUE

\* a finalizeCapture that clears the flag of the orchestrator only after
\* writeDocs
finalizeCapture_flagLast ==
  /\ captureActive' = TRUE
  /\ captureTimer' = FALSE
  /\ recorderActive' = FALSE
  /\ onCapture' = FALSE
  /\ UNCHANGED <<capturedCalls, includeThirdParty, captureBaseDomain>>

\* finalizeCapture past its guard, with NetworkRecorder.stopCapture and
\* setCaptureListener(undefined), up to the call of writeDocs
finalizeCapture ==
  /\ captureActive' = FALSE
  /\ captureTimer' = FALSE
  /\ recorderActive' = FALSE
  /\ onCapture' = FALSE
  /\ UNCHANGED <<capturedCalls, includeThirdParty, captureBaseDomain>>

(***************************************************************************)
(* Agent.handleNetworkCall and the response handler of NetworkRecorder     *)
(***************************************************************************)
\* a gate that asks only in EXECUTE mode
NeedsApproval_executeOnly(risk, m) == (risk = "high" \/ risk = "medium") /\ m = "EXECUTE"

\* a gate that asks for medium risk in every mode
NeedsApproval_anyMode(risk, m) == risk = "high" \/ risk = "medium"

\* the two `if`s of handleNetworkCall
NeedsApproval(risk, m) == risk = "high" \/ (risk = "medium" /\ m = "EXECUTE")

\* `return decision` after `await this.requestApproval(...)`
ReturnOf(promise) == promise.value

\* a response handler at its start: the kind of its request, where it stands,
\* the result of assessRisk, this.mode at the call of handleNetworkCall, the
\* promise it awaits, what handleNetworkCall returned, this.captureActive when
\* the handler read it, whether it appended a CapturedCall, and
\* this.captureActive when the response was observed
NewHandler(k, risk, m) ==
  [kind |-> k, pc |-> "start", risk |-> risk, mode |-> m, promise |-> 0, ret |-> "none",
   gateActive |-> FALSE, produced |-> FALSE, seenActive |-> recorderActive]

\* the requests recorded and the responses seen
Recorded == LET Sum[k \in 0..Len(RequestKinds)] == IF k = 0 THEN 0 ELSE Sum[k - 1] + requests[k]
            IN  Sum[Len(RequestKinds)]
Answered(k) == Cardinality({r \in DOMAIN handlers : handlers[r].kind = k})

\* this.capturedCalls.push(call); if (this.onCapture) this.onCapture(call)
Push(r, hs) ==
  LET info == RequestKinds[hs[r].kind]
      call == [method |-> info.method, url |-> info.url, req |-> r]
  IN  /\ handlers' = [hs EXCEPT ![r].pc = "done", ![r].produced = TRUE]
      /\ capturedCalls' = Append(capturedCalls, call)
      /\ IF onCapture THEN onCapturedCall(call)
                      ELSE UNCHANGED <<captureUniqueKeys, sessionCalls>>

\* a handler that drops the call of a denied response
AfterGate_denyDrops(r, hs) ==
  LET info == RequestKinds[hs[r].kind]
      hg == [hs EXCEPT ![r].gateActive = recorderActive]
  IN  IF \/ ~recorderActive
         \/ ~ShouldCaptureTable[hs[r].kind, includeThirdParty, captureBaseDomain]
         \/ hs[r].ret = "no"
        THEN /\ handlers' = [hg EXCEPT ![r].pc = "done"]
             /\ UNCHANGED <<capturedCalls, captureUniqueKeys, sessionCalls>>
      ELSE IF info.textBody
        THEN /\ handlers' = [hg EXCEPT ![r].pc = "awaitBody"]
             /\ UNCHANGED <<capturedCalls, captureUniqueKeys, sessionCalls>>
      ELSE Push(r, hg)

\* the response handler from the return of handleNetworkCall to its next
\* suspension: the two early returns, and safeResponseBody, which suspends on
\* response.text() only for a JSON or plain-text response
AfterGate(r, hs) ==
  LET info == RequestKinds[hs[r].kind]
      hg == [hs EXCEPT ![r].gateActive = recorderActive]
  IN  IF ~recorderActive \/ ~ShouldCaptureTable[hs[r].kind, includeThirdParty, captureBaseDomain]
        THEN /\ handlers' = [hg EXCEPT ![r].pc = "done"]
             /\ UNCHANGED <<capturedCalls, captureUniqueKeys, sessionCalls>>
      ELSE IF info.textBody
        THEN /\ handlers' = [hg EXCEPT ![r].pc = "awaitBody"]
             /\ UNCHANGED <<capturedCalls, captureUniqueKeys, sessionCalls>>
      ELSE Push(r, hg)

\* the receivers of an event emitted now
To == Dispatch(script, listeners).invoked
AppListener == 1
PromptListener == 2

(***************************************************************************)
(* Specification of the program: the page issues requests and receives     *)
(* responses, the user types commands and answers approval prompts, the    *)
(* inactivity timer fires                                                  *)
(***************************************************************************)
Init ==
  /\ listeners = <<>>
  /\ resolver = 0 /\ actionResolver = 0 /\ nextStepsResolver = 0
  /\ mode = "OBSERVE_ONLY"
  /\ script = [l \in ListenerIds |-> NoScript]
  /\ promises = <<>>
  /\ handlers = <<>>
  /\ emitted = <<>>
  /\ lastOp = Op("init", 0, 0)
  /\ InitProg

\* startCLI (App subscribes handleEvent) and agent.onEvent(handleUserPrompt)
StartCLI ==
  /\ phase = "navigating"
  /\ phase' = "running"
  /\ listeners' = <<AppListener, PromptListener>>
  /\ emitted' = <<>>
  /\ lastOp' = Op("startCLI", 0, 0)
  /\ UNCHANGED <<resolver, actionResolver, nextStepsResolver, mode, script, exploreVars, unitVars, promises, handlers,
                 recVars, captureActive, captureTimer, exploring, captureUniqueKeys, sessionCalls,
                 appVars>>

\* page.on("request"): every request the page issues is recorded
RequestObserved(k) ==
  /\ Recorded < MaxRequests
  /\ requests' = [requests EXCEPT ![k] = @ + 1]
  /\ emitted' = <<>>
  /\ lastOp' = Op("request", k, 0)
  /\ UNCHANGED <<agentVars, script, exploreVars, unitVars, promises, handlers, recorderActive, captureBaseDomain,
                 includeThirdParty, capturedCalls, onCapture, orchVars, appVars>>

\* a gate that reports only the calls it asks about
GateEvents_gatedOnly(r, gated) ==
  IF gated THEN <<Event("approval_required", r, To), Event("network", r, To)>> ELSE <<>>

\* the events of handleNetworkCall for response r: the network event, then
\* the approval_required event of requestApproval for a gated call
GateEvents(r, gated) ==
  IF gated THEN <<Event("network", r, To), Event("approval_required", r, To)>>
  ELSE <<Event("network", r, To)>>

\* page.on("response") for a recorded request of kind k, up to its first
\* suspension: handleNetworkCall emits the network event and either parks an
\* approval request or returns null, after which the handler runs on
ResponseObserved(k) ==
  LET r == Len(handlers) + 1
      risk == KindRisk(k)
      p == Len(promises) + 1
      h0 == Append(handlers, NewHandler(k, risk, mode))
  IN  /\ Answered(k) < requests[k]
      /\ lastOp' = Op("response", r, 0)
      /\ IF NeedsApproval(risk, mode)
           THEN /\ Len(promises) < MaxPromises
                /\ emitted' = GateEvents(r, TRUE)
                /\ promises' = Append(promises, NewPromise("approval"))
                /\ resolver' = Park(resolver, p)
                /\ pendingApproval' = IF AppListener \in {To[i] : i \in DOMAIN To}
                                        THEN r ELSE pendingApproval
                /\ handlers' = [h0 EXCEPT ![r].pc = "awaitApproval", ![r].promise = p]
                /\ UNCHANGED <<capturedCalls, captureUniqueKeys, sessionCalls>>
           ELSE /\ emitted' = GateEvents(r, FALSE)
                /\ AfterGate(r, [h0 EXCEPT ![r].ret = "null"])
                /\ UNCHANGED <<promises, resolver, pendingApproval>>
      /\ UNCHANGED <<listeners, actionResolver, nextStepsResolver, mode, script, exploreVars, unitVars, requests,
                     recorderActive, captureBaseDomain, includeThirdParty, onCapture,
                     captureActive, captureTimer, exploring, phase, pendingSuggestion>>

\* agent.resolveApproval(decision), after which the handler whose promise
\* was settled returns from handleNetworkCall and runs on
ResolveAndResume(decision) ==
  LET res == ResolveSlot(promises, resolver, decision)
      woken == {r \in DOMAIN handlers :
                  /\ handlers[r].pc = "awaitApproval"
                  /\ res.promises[handlers[r].promise].state = "resolved"}
  IN  /\ promises' = res.promises
      /\ resolver' = res.slot
      /\ emitted' = <<>>
      /\ lastOp' = Op("resolveApproval", decision, resolver)
      /\ IF woken = {}
           THEN UNCHANGED <<handlers, capturedCalls, captureUniqueKeys, sessionCalls>>
           ELSE LET r == CHOOSE x \in woken : TRUE
                IN  AfterGate(r, [handlers EXCEPT ![r].ret = ReturnOf(res.promises[handlers[r].promise])])
      /\ UNCHANGED <<listeners, actionResolver, nextStepsResolver, mode, script, exploreVars, unitVars, requests,
                     recorderActive, captureBaseDomain, includeThirdParty, onCapture,
                     captureActive, captureTimer, exploring, phase, pendingSuggestion>>

\* App.handleApprovalDecision
handleApprovalDecision(decision) ==
  /\ phase = "running"
  /\ pendingApproval # 0
  /\ pendingApproval' = 0
  /\ ResolveAndResume(decision)

\* response.text() returns or throws: the call is appended either way
BodyRead(r) ==
  /\ r \in DOMAIN handlers
  /\ handlers[r].pc = "awaitBody"
  /\ Push(r, handlers)
  /\ emitted' = <<>>
  /\ lastOp' = Op("bodyRead", r, 0)
  /\ UNCHANGED <<agentVars, script, exploreVars, unitVars, promises, requests, recorderActive, captureBaseDomain,
                 includeThirdParty, onCapture, captureActive, captureTimer, exploring,
                 phase, appVars>>

\* TextInput takes input while no prompt is shown
inputEnabled == pendingApproval = 0 /\ pendingSuggestion = 0

\* "/capture on"
CaptureOn ==
  /\ phase = "running" /\ inputEnabled
  /\ IF ~captureActive
       THEN startCaptureSession
       ELSE UNCHANGED <<captureActive, recorderActive, capturedCalls, includeThirdParty,
                        captureBaseDomain, onCapture>>
  /\ emitted' = <<Event("user_prompt", 0, To), Event("info", 0, To)>>
  /\ lastOp' = Op("captureOn", 0, 0)
  /\ UNCHANGED <<agentVars, script, exploreVars, unitVars, promises, handlers, requests, captureTimer,
                 exploring, captureUniqueKeys, sessionCalls, phase, appVars>>

\* "/capture off" and "generate docs": both reach finalizeCapture only
\* when capture is active
CaptureOff ==
  /\ phase = "running" /\ inputEnabled
  /\ IF captureActive
       THEN finalizeCapture
       ELSE UNCHANGED <<captureActive, captureTimer, recorderActive, onCapture,
                        capturedCalls, includeThirdParty, captureBaseDomain>>
  /\ emitted' = <<Event("user_prompt", 0, To)>>
  /\ lastOp' = Op("captureOff", 0, 0)
  /\ UNCHANGED <<agentVars, script, exploreVars, unitVars, promises, handlers, requests,
                 exploring, captureUniqueKeys, sessionCalls, phase, appVars>>

\* "I'm logged in": startCaptureSession and scheduleCaptureFinalize
LoggedIn ==
  /\ phase = "running" /\ inputEnabled
  /\ IF ~captureActive
       THEN /\ startCaptureSession
            /\ captureTimer' = IF exploring THEN captureTimer ELSE TRUE
       ELSE UNCHANGED <<captureActive, recorderActive, capturedCalls, includeThirdParty,
                        captureBaseDomain, onCapture, captureTimer>>
  /\ emitted' = <<Event("user_prompt", 0, To), Event("info", 0, To)>>
  /\ lastOp' = Op("loggedIn", 0, 0)
  /\ UNCHANGED <<agentVars, script, exploreVars, unitVars, promises, handlers, requests,
                 exploring, captureUniqueKeys, sessionCalls, phase, appVars>>

\* the timeout of scheduleCaptureFinalize fires
TimerFires ==
  /\ captureTimer
  /\ IF captureActive
       THEN finalizeCapture
       ELSE /\ captureTimer' = FALSE
            /\ UNCHANGED <<captureActive, recorderActive, onCapture,
                           capturedCalls, includeThirdParty, captureBaseDomain>>
  /\ emitted' = <<>>
  /\ lastOp' = Op("timer", 0, 0)
  /\ UNCHANGED <<agentVars, script, exploreVars, unitVars, promises, handlers, requests,
                 exploring, captureUniqueKeys, sessionCalls, phase, appVars>>

\* a setMode that does nothing when given the current mode
setMode_changeOnly(m) ==
  /\ m # mode
  /\ mode' = m
  /\ emitted' = <<Event("mode_change", m, To)>>
  /\ lastOp' = Op("setMode", m, 0)
  /\ UNCHANGED <<listeners, resolver, actionResolver, nextStepsResolver, script, promises,
                 handlers, progVars>>

setMode(m) ==
  /\ mode' = m
  /\ emitted' = <<Event("mode_change", m, To)>>
  /\ lastOp' = Op("setMode", m, 0)
  /\ UNCHANGED <<listeners, resolver, actionResolver, nextStepsResolver, script, promises,
                 handlers, progVars>>

Next ==
  \/ StartCLI
  \/ \E k \in KindIds : RequestObserved(k)
  \/ \E k \in KindIds : ResponseObserved(k)
  \/ \E d \in ApprovalDecisions : handleApprovalDecision(d)
  \/ \E r \in 1..MaxRequests : BodyRead(r)
  \/ CaptureOn
  \/ CaptureOff
  \/ LoggedIn
  \/ TimerFires

Spec == Init /\ [][Next]_vars

(***************************************************************************)
(* Specification of the risk gate: the recorder feeds handleNetworkCall, a *)
(* client sets the mode and calls resolveApproval, one plain listener      *)
(* subscribed, no capture session                                          *)
(***************************************************************************)
InitGate ==
  /\ listeners = <<3>>
  /\ resolver = 0 /\ actionResolver = 0 /\ nextStepsResolver = 0
  /\ mode = "OBSERVE_ONLY"
  /\ script = [l \in ListenerIds |-> NoScript]
  /\ promises = <<>>
  /\ handlers = <<>>
  /\ emitted = <<>>
  /\ lastOp = Op("init", 0, 0)
  /\ InitProg

resolveApprovalByClient(decision) ==
  /\ ResolveAndResume(decision)
  /\ UNCHANGED pendingApproval

NextGate ==
  \/ \E m \in ExecutionModes : setMode(m)
  \/ \E k \in KindIds : RequestObserved(k)
  \/ \E k \in KindIds : ResponseObserved(k)
  \/ \E d \in ApprovalDecisions : resolveApprovalByClient(d)

SpecGate == InitGate /\ [][NextGate]_vars

(***************************************************************************)
(* index.tsx: isUnsafeLabel and isRiskyNavigation                          *)
(***************************************************************************)
L_logout == <<"l","o","g","o","u","t">>
L_sign == <<"s","i","g","n">>
L_out == <<"o","u","t">>
L_delete == <<"d","e","l","e","t","e">>
L_remove == <<"r","e","m","o","v","e">>
L_unsubscribe == <<"u","n","s","u","b","s","c","r","i","b","e">>
L_buy == <<"b","u","y">>

\* \s
WhiteSpace == {" ", "\t", "\n"}

\* first position >= i of s that holds no white space
RECURSIVE SkipSpaces(_, _)
SkipSpaces(s, i) ==
  IF i <= Len(s) /\ s[i] \in WhiteSpace THEN SkipSpaces(s, i + 1) ELSE i

\* sign\s*out
MatchesSignOut(s) ==
  \E i \in 1..Len(s) : HasAt(s, L_sign, i) /\ HasAt(s, L_out, SkipSpaces(s, i + Len(L_sign)))

UnsafeKeywords == {L_logout, L_delete, L_remove, L_unsubscribe, T_checkout, T_payment,
                   T_order, T_purchase, L_buy}

\* /(logout|sign\s*out|delete|remove|unsubscribe|checkout|payment|order|purchase|buy)/i
isUnsafeLabel(label) ==
  LET s == toLowerCase(label)
  IN  (\E w \in UnsafeKeywords : Contains(s, w)) \/ MatchesSignOut(s)

\* a candidate without href carries the empty string
isRiskyNavigation(candidate) ==
  IF isUnsafeLabel(candidate.label) THEN TRUE
  ELSE IF candidate.href = <<>> THEN FALSE
  ELSE IF ~ValidUrl(candidate.href) THEN TRUE
  ELSE LET targetHost == Hostname(candidate.href)
           baseHost == Hostname(BaseUrl)
       IN  targetHost # baseHost /\ ~endsWith(targetHost, <<".">> \o baseHost)

(***************************************************************************)
(* BrowserController.getNavigationCandidates                               *)
(***************************************************************************)
MaxCandidates == 9    \* plain links of the largest page
MaxFailures == 2      \* navigations that throw in one run

CandidateCap == 25

\* `${item.type}:${item.label}:${item.href || ""}`
CandidateKey(item) == <<item.type, ":">> \o item.label \o <<":">> \o item.href

RECURSIVE Unique(_, _, _)
Unique(items, seen, unique) ==
  IF items = <<>> \/ Len(unique) >= CandidateCap THEN unique
  ELSE LET item == Head(items)
       IN  IF CandidateKey(item) \in seen
             THEN Unique(Tail(items), seen, unique)
             ELSE Unique(Tail(items), seen \cup {CandidateKey(item)}, Append(unique, item))

Link(label, href) == [label |-> label, href |-> href, type |-> "link"]
Button(label) == [label |-> label, href |-> <<>>, type |-> "button"]

\* the visible, labelled links and buttons of page, links first, without
\* duplicates, at most CandidateCap of them
getNavigationCandidates(page) == Unique(page.links \o page.buttons, {}, <<>>)

N_Logout == <<"L","o","g","o","u","t">>
N_SignOut == <<"S","i","g","n"," ","o","u","t">>
N_Docs == <<"D","o","c","s">>
N_Menu == <<"M","e","n","u">>
N_BuyNow == <<"B","u","y"," ","n","o","w">>
N_Start == <<"S","t","a","r","t">>
N_nope == <<"n","o","p","e">>
N_docs == <<"d","o","c","s">>

\* the i-th plain link: "pa", "pb", ... to a page of the site
PlainLabel(i) == <<"p", LowerLetters[i]>>
PlainLink(i) == Link(PlainLabel(i), BaseUrl \o PlainLabel(i))

EmptyPage == [links |-> <<>>, buttons |-> <<>>]
SmallPage ==
  [links |-> <<Link(N_SignOut, BaseUrl \o L_logout),
               Link(N_Docs, T_https \o H_cdn \o P_track),
               PlainLink(1), PlainLink(2),
               Link(<<"A","p","i">>, T_https \o H_api \o T_login),
               Link(<<"S","u","b">>, T_https \o <<"a",".">> \o H_www \o <<"/">>),
               Link(<<"M","a","i","l">>, <<"m","a","i","l","t","o",":","a">>)>>,
   buttons |-> <<Button(N_Menu)>>]
BigPage ==
  [links |-> <<Link(N_Logout, BaseUrl \o L_logout),
               Link(N_Docs, T_https \o H_cdn \o P_track)>>
             \o [i \in 1..MaxCandidates |-> PlainLink(i)]
             \o <<PlainLink(1),
                  Link(N_Start, BaseUrl \o PlainLabel(2)),
                  Link(PlainLabel(3), BaseUrl \o N_docs)>>,
   buttons |-> <<Button(N_Menu), Button(N_BuyNow)>>]
Pages == {EmptyPage, SmallPage, BigPage}

(***************************************************************************)
(* gemini.getExplorationPlan and the execution order                       *)
(***************************************************************************)
PlanEntry(label, priority) == [label |-> label, priority |-> priority]

PlanNone == [prioritizedPages |-> <<>>, skipReasons |-> <<>>]

\* a fallback that ranks the candidates from the last to the first
PlanFallback_reversed(cands) ==
  [prioritizedPages |-> [i \in 1..Len(cands) |->
                           PlanEntry(cands[Len(cands) + 1 - i].label, "medium")],
   skipReasons |-> <<>>]

\* the plan returned when the analysis fails: every candidate, medium
PlanFallback(cands) ==
  [prioritizedPages |-> [i \in 1..Len(cands) |-> PlanEntry(cands[i].label, "medium")],
   skipReasons |-> <<>>]

PlanRanked ==
  [prioritizedPages |-> <<PlanEntry(N_Logout, "high"),
                          PlanEntry(toUpperCase(PlainLabel(3)), "low"),
                          PlanEntry(PlainLabel(2), "high"),
                          PlanEntry(N_nope, "medium"),
                          PlanEntry(N_Docs, "medium"),
                          PlanEntry(PlainLabel(2), "low")>>,
   skipReasons |-> <<toUpperCase(PlainLabel(4)), N_docs, N_Logout>>]

Plans(cands) == {PlanNone, PlanFallback(cands), PlanRanked}

\* new Set(plan.skipReasons.map((s) => s.label.toLowerCase()))
SkipLabelsOf(plan) == {toLowerCase(plan.skipReasons[i]) : i \in DOMAIN plan.skipReasons}

\* the entries in the order of the plan, whatever their priority
priorityOrder_planOrder(plan) == plan.prioritizedPages

priorityOrder(plan) ==
  SelectSeq(plan.prioritizedPages, LAMBDA p : p.priority = "high")
    \o SelectSeq(plan.prioritizedPages, LAMBDA p : p.priority = "medium")
    \o SelectSeq(plan.prioritizedPages, LAMBDA p : p.priority = "low")

\* candidates.find(...): the index of the first candidate with the label of
\* pp that is not used yet, 0 when there is none
FindMatch(cands, pp, usedLabels) ==
  LET hits == {i \in DOMAIN cands :
                 /\ toLowerCase(cands[i].label) = toLowerCase(pp.label)
                 /\ toLowerCase(cands[i].label) \notin usedLabels}
  IN  IF hits = {} THEN 0 ELSE CHOOSE i \in hits : \A j \in hits : i <= j

\* for (const pp of priorityOrder)
RECURSIVE MapPlan(_, _, _, _)
MapPlan(cands, pps, ordered, usedLabels) ==
  IF pps = <<>> THEN [ordered |-> ordered, usedLabels |-> usedLabels]
  ELSE LET m == FindMatch(cands, Head(pps), usedLabels)
       IN  IF m = 0
             THEN MapPlan(cands, Tail(pps), ordered, usedLabels)
             ELSE MapPlan(cands, Tail(pps), Append(ordered, cands[m]),
                          usedLabels \cup {toLowerCase(cands[m].label)})

\* for (const c of candidates): the candidates the plan did not place
RECURSIVE AddRemaining(_, _, _)
AddRemaining(cands, ordered, usedLabels) ==
  IF cands = <<>> THEN ordered
  ELSE LET c == Head(cands)
       IN  IF toLowerCase(c.label) \notin usedLabels
             THEN AddRemaining(Tail(cands), Append(ordered, c),
                               usedLabels \cup {toLowerCase(c.label)})
             ELSE AddRemaining(Tail(cands), ordered, usedLabels)

OrderedCandidates(cands, plan) ==
  LET m == MapPlan(cands, priorityOrder(plan), <<>>, {})
  IN  AddRemaining(cands, m.ordered, m.usedLabels)

(***************************************************************************)
(* index.tsx: exploreVisiblePages, called by handleUserPrompt              *)
(***************************************************************************)
VisitBudget == 8

\* the candidates of the pages, with what the visit loop asks about each
AllCandidates == UNION {{getNavigationCandidates(p)[i] : i \in DOMAIN getNavigationCandidates(p)} : p \in Pages}
\* a visit loop without the test of the label
UnsafeTable_none == [c \in AllCandidates |-> FALSE]

UnsafeTable == [c \in AllCandidates |-> isUnsafeLabel(c.label)]

\* a visit loop that takes no candidate for risky
RiskyTable_none == [c \in AllCandidates |-> FALSE]

RiskyTable == [c \in AllCandidates |-> isRiskyNavigation(c)]
LowerLabelTable == [c \in AllCandidates |-> toLowerCase(c.label)]

\* a loop that stops one visit late
BudgetSpent_late(n) == n > VisitBudget

\* if (explored >= 8) break
BudgetSpent(n) == n >= VisitBudget

\* a skip list that is followed for a risky candidate too
PlanSkips_always(c, skip) == LowerLabelTable[c] \in skip

\* skipLabels.has(candidate.label.toLowerCase()) && !isRiskyNavigation(candidate)
PlanSkips(c, skip) == LowerLabelTable[c] \in skip /\ ~RiskyTable[c]

\* a loop that keeps no account of the hrefs it went to
AlreadyVisited_never(c, vis) == FALSE

\* candidate.href && visited.has(candidate.href)
AlreadyVisited(c, vis) == c.href # <<>> /\ c.href \in vis

\* the visit loop from candidate i up to its next suspension: the request
\* for an action decision ("ask"), the navigation ("go"), or the end of the
\* loop ("end"); info counts the skip messages emitted on the way
RECURSIVE Scan(_, _, _, _, _, _)
Scan(oc, i, n, vis, skip, info) ==
  IF i > Len(oc) \/ BudgetSpent(n) THEN [at |-> i, next |-> "end", info |-> info]
  ELSE LET c == oc[i]
       IN  IF UnsafeTable[c] THEN Scan(oc, i + 1, n, vis, skip, info)
           ELSE IF PlanSkips(c, skip)
             THEN Scan(oc, i + 1, n, vis, skip, info + 1)
           ELSE IF AlreadyVisited(c, vis) THEN Scan(oc, i + 1, n, vis, skip, info)
           ELSE IF RiskyTable[c] THEN [at |-> i, next |-> "ask", info |-> info]
           ELSE [at |-> i, next |-> "go", info |-> info]

Infos(n) == [j \in 1..n |-> Event("info", 0, To)]

\* the end of exploreVisiblePages and, back in handleUserPrompt,
\* finalizeCapture("Exploration complete.")
Finish ==
  /\ exploring' = FALSE
  /\ IF captureActive
       THEN finalizeCapture
       ELSE UNCHANGED <<captureActive, captureTimer, recorderActive, onCapture,
                        capturedCalls, includeThirdParty, captureBaseDomain>>

\* lines 561-577: the watermark, the message, and the call of navigateSoft
\* or performSuggestedAction for candidate i
Navigate(i, evs) ==
  /\ callCountBefore' = Len(capturedCalls)
  /\ emitted' = evs \o <<Event("info", i, To)>>
  /\ navigations' = navigations + 1
  /\ cursor' = i
  /\ xpc' = "navigating"
  /\ UNCHANGED <<exploring, captureActive, captureTimer, recorderActive, onCapture,
                 capturedCalls, includeThirdParty, captureBaseDomain>>

\* an App that does not handle the action_suggestion event
ShowSuggestion_ignored(p, pend) == pend

\* App.handleEvent on action_suggestion: setPendingSuggestion(event), when
\* the listener of the App received the event
ShowSuggestion(p, pend) == IF AppListener \in {To[j] : j \in DOMAIN To} THEN p ELSE pend

\* the visit loop runs on from candidate i; ps, slot and pend are the
\* promises, Agent.actionResolver and pendingSuggestion it finds
Resume(oc, i, n, vis, skip, visitedPages, ps, slot, pend, evs) ==
  LET s == Scan(oc, i, n, vis, skip, 0)
      p == Len(ps) + 1
      out == evs \o Infos(s.info)
      kept == /\ promises' = ps
              /\ actionResolver' = slot
              /\ pendingSuggestion' = pend
  IN  CASE s.next = "ask" ->
             /\ promises' = Append(ps, NewPromise("action"))
             /\ actionResolver' = Park(slot, p)
             /\ pendingSuggestion' = ShowSuggestion(p, pend)
             /\ emitted' = out \o <<Event("action_suggestion", p, To)>>
             /\ cursor' = s.at
             /\ xpc' = "decision"
             /\ UNCHANGED <<callCountBefore, navigations, exploring, captureActive,
                            captureTimer, recorderActive, onCapture, capturedCalls,
                            includeThirdParty, captureBaseDomain>>
        [] s.next = "go" ->
             /\ Navigate(s.at, out)
             /\ kept
        [] s.next = "end" /\ visitedPages > 0 ->
             /\ emitted' = out \o <<Event("llm_status", 0, To)>>
             /\ cursor' = s.at
             /\ xpc' = "summary"
             /\ kept
             /\ UNCHANGED <<callCountBefore, navigations, exploring, captureActive,
                            captureTimer, recorderActive, onCapture, capturedCalls,
                            includeThirdParty, captureBaseDomain>>
        [] s.next = "end" /\ visitedPages = 0 ->
             /\ Finish
             /\ emitted' = out
             /\ cursor' = s.at
             /\ xpc' = "done"
             /\ kept
             /\ UNCHANGED <<callCountBefore, navigations>>

\* what no step of the exploration writes
exploreFixed == <<listeners, resolver, nextStepsResolver, mode, script, handlers, requests,
                  captureUniqueKeys, sessionCalls, phase, pendingApproval, unitVars,
                  overlapping, docsStarted, docsWritten>>

\* the user asks to explore: handleUserPrompt starts the capture session and
\* calls exploreVisiblePages, which waits for the candidates
ExplorePrompt ==
  /\ phase = "running" /\ inputEnabled
  /\ xpc = "idle"
  /\ IF ~captureActive
       THEN startCaptureSession
       ELSE UNCHANGED <<captureActive, recorderActive, capturedCalls, includeThirdParty,
                        captureBaseDomain, onCapture>>
  /\ exploring' = TRUE
  /\ xpc' = "candidates"
  /\ emitted' = <<Event("user_prompt", 0, To)>>
  /\ lastOp' = Op("explore", 0, 0)
  /\ UNCHANGED <<exploreFixed, promises, actionResolver, pendingSuggestion, captureTimer,
                 candidates, orderedCandidates, skipLabels, cursor, explored, visited,
                 pagesVisitedData, pagesExploredNames, callCountBefore, pageApis, pageUrl,
                 navigations, completed, failures>>

\* getNavigationCandidates returns: without candidates the run ends, with
\* candidates it waits for the exploration plan
CandidatesReturned(page) ==
  /\ xpc = "candidates"
  /\ candidates' = getNavigationCandidates(page)
  /\ IF candidates' = <<>>
       THEN /\ Finish
            /\ emitted' = <<Event("info", 0, To)>>
            /\ xpc' = "done"
       ELSE /\ emitted' = <<Event("llm_status", 0, To)>>
            /\ xpc' = "plan"
            /\ UNCHANGED <<exploring, captureActive, captureTimer, recorderActive, onCapture,
                           capturedCalls, includeThirdParty, captureBaseDomain>>
  /\ lastOp' = Op("candidates", Len(candidates'), 0)
  /\ UNCHANGED <<exploreFixed, promises, actionResolver, pendingSuggestion,
                 orderedCandidates, skipLabels, cursor, explored, visited,
                 pagesVisitedData, pagesExploredNames, callCountBefore, pageApis, pageUrl,
                 navigations, completed, failures>>

\* getExplorationPlan returns: the execution order is built and the visit
\* loop starts; lastOp.p is 1 for the plan of the catch block
PlanReturned(plan) ==
  /\ xpc = "plan"
  /\ orderedCandidates' = OrderedCandidates(candidates, plan)
  /\ skipLabels' = SkipLabelsOf(plan)
  /\ visited' = {}
  /\ explored' = 0
  /\ pagesVisitedData' = <<>>
  /\ Resume(orderedCandidates', 1, 0, {}, skipLabels', 0, promises, actionResolver,
            pendingSuggestion, <<Event("llm_status", 0, To), Event("info", 0, To)>>)
  /\ lastOp' = Op("plan", Len(plan.prioritizedPages),
                  IF plan = PlanFallback(candidates) THEN 1 ELSE 0)
  /\ UNCHANGED <<exploreFixed, candidates, pagesExploredNames, pageApis, pageUrl,
                 completed, failures>>

\* App.handleSuggestionDecision: resolveActionDecision hands the decision to
\* the visit loop, which navigates on "yes" and moves on otherwise
handleSuggestionDecision(decision) ==
  LET r == ResolveSlot(promises, actionResolver, decision)
      p == Len(promises)
  IN  /\ pendingSuggestion # 0
      /\ xpc = "decision"
      /\ IF r.promises[p].value = "yes"
            THEN /\ Navigate(cursor, <<>>)
                 /\ promises' = r.promises
                 /\ actionResolver' = r.slot
                 /\ pendingSuggestion' = 0
            ELSE Resume(orderedCandidates, cursor + 1, explored, visited, skipLabels,
                        Len(pagesVisitedData), r.promises, r.slot, 0, <<>>)
      /\ lastOp' = Op("resolveActionDecision", decision, actionResolver)
      /\ UNCHANGED <<exploreFixed, candidates, orderedCandidates, skipLabels, explored,
                     visited, pagesVisitedData, pagesExploredNames, pageApis, pageUrl,
                     completed, failures>>

\* the pages a click may leave the browser on
LandingUrls == {BaseUrl, BaseUrl \o PlainLabel(1)}

\* navigateSoft or performSuggestedAction returns: the visit counts and the
\* settle delay starts
NavigationReturned(url) ==
  LET c == orderedCandidates[cursor]
  IN  /\ xpc = "navigating"
      /\ IF c.href # <<>> THEN url = c.href ELSE url \in LandingUrls
      /\ visited' = IF c.href # <<>> THEN visited \cup {c.href} ELSE visited
      /\ pageUrl' = url
      /\ explored' = explored + 1
      /\ completed' = completed + 1
      /\ xpc' = "settle"
      /\ emitted' = <<>>
      /\ lastOp' = Op("navigated", cursor, 0)
      /\ UNCHANGED <<exploreFixed, promises, actionResolver, pendingSuggestion,
                     recVars, captureActive, captureTimer, exploring,
                     candidates, orderedCandidates, skipLabels, cursor,
                     pagesVisitedData, pagesExploredNames, callCountBefore, pageApis,
                     navigations, failures>>

\* performSuggestedAction finds no element to click and returns
\* { ok: false }: the loop does not read the value, the visit counts and the
\* settle delay starts on the page the browser is still on
ActionMissed ==
  LET c == orderedCandidates[cursor]
  IN  /\ xpc = "navigating"
      /\ c.href = <<>>
      /\ pageUrl' = BaseUrl
      /\ explored' = explored + 1
      /\ completed' = completed + 1
      /\ xpc' = "settle"
      /\ emitted' = <<>>
      /\ lastOp' = Op("actionMissed", cursor, 0)
      /\ UNCHANGED <<exploreFixed, promises, actionResolver, pendingSuggestion,
                     recVars, captureActive, captureTimer, exploring,
                     candidates, orderedCandidates, skipLabels, cursor, visited,
                     pagesVisitedData, pagesExploredNames, callCountBefore, pageApis,
                     navigations, failures>>

\* navigateSoft throws: the failure is reported and the loop moves on
NavigationFailed ==
  LET c == orderedCandidates[cursor]
  IN  /\ xpc = "navigating"
      /\ c.href # <<>>
      /\ failures < MaxFailures
      /\ failures' = failures + 1
      /\ Resume(orderedCandidates, cursor + 1, explored, visited, skipLabels,
                Len(pagesVisitedData), promises, actionResolver, pendingSuggestion,
                <<Event("info", cursor, To)>>)
      /\ lastOp' = Op("navigationFailed", cursor, 0)
      /\ UNCHANGED <<exploreFixed, candidates, orderedCandidates, skipLabels, explored,
                     visited, pagesVisitedData, pagesExploredNames, pageApis, pageUrl,
                     completed>>

\* sleep(1500) is over: the calls captured since the watermark are taken
SettleElapsed ==
  /\ xpc = "settle"
  /\ pageApis' = SubSeq(capturedCalls, callCountBefore + 1, Len(capturedCalls))
  /\ xpc' = "insight"
  /\ emitted' = <<Event("llm_status", 0, To)>>
  /\ lastOp' = Op("settled", cursor, 0)
  /\ UNCHANGED <<exploreFixed, promises, actionResolver, pendingSuggestion,
                 recVars, captureActive, captureTimer, exploring,
                 candidates, orderedCandidates, skipLabels, cursor, explored, visited,
                 pagesVisitedData, pagesExploredNames, callCountBefore, pageUrl,
                 navigations, completed, failures>>

\* sleep(1500) is over and takeScreenshot or getPageContext throws:
\* exploreVisiblePages and handleUserPrompt reject
PageReadFailed ==
  /\ xpc = "settle"
  /\ pageApis' = SubSeq(capturedCalls, callCountBefore + 1, Len(capturedCalls))
  /\ xpc' = "rejected"
  /\ emitted' = <<>>
  /\ lastOp' = Op("pageReadFailed", cursor, 0)
  /\ UNCHANGED <<exploreFixed, promises, actionResolver, pendingSuggestion,
                 recVars, captureActive, captureTimer, exploring,
                 candidates, orderedCandidates, skipLabels, cursor, explored, visited,
                 pagesVisitedData, pagesExploredNames, callCountBefore, pageUrl,
                 navigations, completed, failures>>

\* getExplorationPageInsight returns: the page is stored and reported and
\* the browser is sent back
InsightReturned ==
  LET c == orderedCandidates[cursor]
  IN  /\ xpc = "insight"
      /\ pagesVisitedData' = Append(pagesVisitedData,
                                    [name |-> c.label, url |-> pageUrl, apis |-> pageApis])
      /\ pagesExploredNames' = Append(pagesExploredNames, c.label)
      /\ xpc' = "back"
      /\ emitted' = <<Event("llm_status", 0, To), Event("exploration_insight", cursor, To)>>
      /\ lastOp' = Op("insight", cursor, 0)
      /\ UNCHANGED <<exploreFixed, promises, actionResolver, pendingSuggestion,
                     recVars, captureActive, captureTimer, exploring,
                     candidates, orderedCandidates, skipLabels, cursor, explored, visited,
                     callCountBefore, pageApis, pageUrl, navigations, completed, failures>>

\* goBackOrNavigate and sleep(800) are over: the loop moves on
BackReturned ==
  /\ xpc = "back"
  /\ Resume(orderedCandidates, cursor + 1, explored, visited, skipLabels,
            Len(pagesVisitedData), promises, actionResolver, pendingSuggestion, <<>>)
  /\ lastOp' = Op("back", cursor, 0)
  /\ UNCHANGED <<exploreFixed, candidates, orderedCandidates, skipLabels, explored,
                 visited, pagesVisitedData, pagesExploredNames, pageApis, pageUrl,
                 completed, failures>>

\* goBackOrNavigate throws (neither goBack nor the fallback navigation
\* succeeds): exploreVisiblePages and handleUserPrompt reject
BackFailed ==
  /\ xpc = "back"
  /\ xpc' = "rejected"
  /\ emitted' = <<>>
  /\ lastOp' = Op("backFailed", cursor, 0)
  /\ UNCHANGED <<exploreFixed, promises, actionResolver, pendingSuggestion,
                 recVars, captureActive, captureTimer, exploring,
                 candidates, orderedCandidates, skipLabels, cursor, explored, visited,
                 pagesVisitedData, pagesExploredNames, callCountBefore, pageApis, pageUrl,
                 navigations, completed, failures>>

\* getExplorationSummary returns: the summary is emitted and the run ends
SummaryReturned ==
  /\ xpc = "summary"
  /\ Finish
  /\ xpc' = "done"
  /\ emitted' = <<Event("llm_status", 0, To), Event("exploration_summary", 0, To)>>
  /\ lastOp' = Op("summary", Len(pagesVisitedData), 0)
  /\ UNCHANGED <<exploreFixed, promises, actionResolver, pendingSuggestion,
                 candidates, orderedCandidates, skipLabels, cursor, explored, visited,
                 pagesVisitedData, pagesExploredNames, callCountBefore, pageApis, pageUrl,
                 navigations, completed, failures>>

NextExplore ==
  \/ StartCLI
  \/ ExplorePrompt
  \/ \E page \in Pages : CandidatesReturned(page)
  \/ \E plan \in Plans(candidates) : PlanReturned(plan)
  \/ \E d \in ActionDecisions : handleSuggestionDecision(d)
  \/ \E url \in LandingUrls \cup {c.href : c \in AllCandidates} : NavigationReturned(url)
  \/ ActionMissed
  \/ NavigationFailed
  \/ SettleElapsed
  \/ PageReadFailed
  \/ InsightReturned
  \/ BackReturned
  \/ BackFailed
  \/ SummaryReturned

SpecExplore == Init /\ [][NextExplore]_vars

\* the steps of a run that follow a call that returns or fails, a delay
\* that elapses, or an answer of the user to the suggestion shown
RunStep ==
  \/ \E page \in Pages : CandidatesReturned(page)
  \/ \E plan \in Plans(candidates) : PlanReturned(plan)
  \/ \E d \in ActionDecisions : handleSuggestionDecision(d)
  \/ \E url \in LandingUrls \cup {c.href : c \in AllCandidates} : NavigationReturned(url)
  \/ ActionMissed
  \/ NavigationFailed
  \/ SettleElapsed
  \/ PageReadFailed
  \/ InsightReturned
  \/ BackReturned
  \/ BackFailed
  \/ SummaryReturned

\* one run in which every awaited call returns or fails and the user
\* answers every suggestion shown
SpecExploreFair == SpecExplore /\ WF_vars(RunStep)

(***************************************************************************)
(* Specification of a session with exploration: the user confirms the      *)
(* login, switches capture on and off and asks to explore, also while a    *)
(* run is suspended; the inactivity timer fires                            *)
(***************************************************************************)
MaxOverlap == 1       \* calls of exploreVisiblePages made while a run is suspended

\* the suspension points of exploreVisiblePages
InProgress == {"candidates", "plan", "decision", "navigating", "settle", "insight", "back",
               "summary"}

\* the user asks to explore while the run is suspended: handleUserPrompt
\* starts the capture session if none is active and calls
\* exploreVisiblePages again, which waits for the candidates
ExplorePromptAgain ==
  /\ phase = "running" /\ inputEnabled
  /\ xpc \in InProgress
  /\ overlapping < MaxOverlap
  /\ IF ~captureActive
       THEN startCaptureSession
       ELSE UNCHANGED <<captureActive, recorderActive, capturedCalls, includeThirdParty,
                        captureBaseDomain, onCapture>>
  /\ exploring' = TRUE
  /\ overlapping' = overlapping + 1
  /\ emitted' = <<Event("user_prompt", 0, To)>>
  /\ lastOp' = Op("exploreAgain", 0, 0)
  /\ UNCHANGED <<agentVars, script, promises, handlers, requests, captureTimer,
                 captureUniqueKeys, sessionCalls, phase, appVars, unitVars,
                 xpc, candidates, orderedCandidates, skipLabels, cursor, explored, visited,
                 pagesVisitedData, pagesExploredNames, callCountBefore, pageApis, pageUrl,
                 navigations, completed, failures, docsStarted, docsWritten>>

\* getNavigationCandidates returns to a call made while the run was
\* suspended, from a page without navigation items: that call ends and
\* handleUserPrompt goes on to finalizeCapture("Exploration complete.")
OverlapCandidatesReturned ==
  /\ overlapping > 0
  /\ overlapping' = overlapping - 1
  /\ Finish
  /\ emitted' = <<Event("info", 0, To)>>
  /\ lastOp' = Op("candidatesAgain", 0, 0)
  /\ UNCHANGED <<agentVars, script, promises, handlers, requests,
                 captureUniqueKeys, sessionCalls, phase, appVars, unitVars,
                 xpc, candidates, orderedCandidates, skipLabels, cursor, explored, visited,
                 pagesVisitedData, pagesExploredNames, callCountBefore, pageApis, pageUrl,
                 navigations, completed, failures, docsStarted, docsWritten>>

NextSession ==
  \/ StartCLI
  \/ ExplorePrompt
  \/ \E page \in {EmptyPage, SmallPage} : CandidatesReturned(page)
  \/ PlanReturned(PlanNone)
  \/ \E d \in ActionDecisions : handleSuggestionDecision(d)
  \/ \E url \in LandingUrls \cup {c.href : c \in AllCandidates} : NavigationReturned(url)
  \/ ActionMissed
  \/ NavigationFailed
  \/ SettleElapsed
  \/ PageReadFailed
  \/ InsightReturned
  \/ BackReturned
  \/ BackFailed
  \/ SummaryReturned
  \/ ExplorePromptAgain
  \/ OverlapCandidatesReturned
  \/ CaptureOn
  \/ CaptureOff
  \/ LoggedIn
  \/ TimerFires

SpecSession == Init /\ [][NextSession]_vars

(***************************************************************************)
(* Specification of a run with traffic: the page issues same-site requests *)
(* while a run visits the two links of a page without a plan; the user     *)
(* switches capture off and on; the browser does not fail                  *)
(***************************************************************************)
PairPage == [links |-> <<PlainLink(1), PlainLink(2)>>, buttons |-> <<>>]

NextVisit ==
  \/ StartCLI
  \/ ExplorePrompt
  \/ CandidatesReturned(PairPage)
  \/ PlanReturned(PlanNone)
  \/ \E url \in {c.href : c \in AllCandidates} : NavigationReturned(url)
  \/ SettleElapsed
  \/ InsightReturned
  \/ BackReturned
  \/ SummaryReturned
  \/ RequestObserved(1)
  \/ ResponseObserved(1)
  \/ \E r \in 1..MaxRequests : BodyRead(r)
  \/ CaptureOn
  \/ CaptureOff

SpecVisit == Init /\ [][NextVisit]_vars

(***************************************************************************)
(* Specification of the documents: the page issues same-site requests, the *)
(* user starts capture and asks for the documents, the timer fires and the *)
(* process is interrupted; finalizeCapture goes on to writeDocs, which is  *)
(* suspended while the documents are generated.  The exit of the process   *)
(* after an interrupt writes nothing and is left out.                      *)
(***************************************************************************)
MaxDocs == 2          \* calls of writeDocs that generate documents

\* what calls finalizeCapture: the timeout of scheduleCaptureFinalize,
\* "/capture off", "generate docs", and the SIGINT handler
Triggers == {"onTimer", "offCommand", "docsCommand", "sigint"}

\* the exploration run, which these steps leave alone
runFixed == <<xpc, candidates, orderedCandidates, skipLabels, cursor, explored, visited,
              pagesVisitedData, pagesExploredNames, callCountBefore, pageApis, pageUrl,
              navigations, completed, failures, overlapping>>

\* writeDocs(sessionCalls, reason) up to its first await: nothing to write,
\* or the request for the documents
writeDocs ==
  IF sessionCalls = <<>>
    THEN /\ emitted' = <<Event("info", 0, To)>>
         /\ UNCHANGED docsStarted
    ELSE /\ emitted' = <<Event("llm_status", 0, To)>>
         /\ docsStarted' = docsStarted + 1

\* a caller of finalizeCapture runs: finalizeCapture returns at its guard
\* when capture is not active, and otherwise stops capture and calls
\* writeDocs
FinalizeTriggered(trigger) ==
  /\ docsStarted < MaxDocs
  /\ trigger = "onTimer" => captureTimer
  /\ trigger \in {"offCommand", "docsCommand"} => phase = "running" /\ inputEnabled
  /\ IF captureActive
       THEN /\ finalizeCapture
            /\ writeDocs
       ELSE /\ captureTimer' = IF trigger = "onTimer" THEN FALSE ELSE captureTimer
            /\ emitted' = <<>>
            /\ UNCHANGED <<captureActive, recorderActive, onCapture, capturedCalls,
                           includeThirdParty, captureBaseDomain, docsStarted>>
  /\ lastOp' = Op(trigger, 0, 0)
  /\ UNCHANGED <<agentVars, script, promises, handlers, requests, exploring,
                 captureUniqueKeys, sessionCalls, phase, appVars, unitVars, runFixed,
                 docsWritten>>

\* generateApiDocumentation returns to a suspended writeDocs, which writes
\* the markdown and the OpenAPI file
DocsGenerated ==
  /\ docsWritten < docsStarted
  /\ docsWritten' = docsWritten + 1
  /\ emitted' = <<Event("llm_status", 0, To), Event("info", 0, To)>>
  /\ lastOp' = Op("docsWritten", 0, 0)
  /\ UNCHANGED <<agentVars, script, promises, handlers, recVars, orchVars, appVars,
                 unitVars, runFixed, docsStarted>>

NextDocs ==
  \/ StartCLI
  \/ CaptureOn
  \/ LoggedIn
  \/ RequestObserved(1)
  \/ ResponseObserved(1)
  \/ \E r \in 1..MaxRequests : BodyRead(r)
  \/ \E trigger \in Triggers : FinalizeTriggered(trigger)
  \/ DocsGenerated

SpecDocs == Init /\ [][NextDocs]_vars

(***************************************************************************)
(* Specification of capture under each mode: the program with the mode the *)
(* agent was given before the page issues requests, without the timer      *)
(***************************************************************************)
InitModes ==
  /\ listeners = <<>>
  /\ resolver = 0 /\ actionResolver = 0 /\ nextStepsResolver = 0
  /\ mode \in ExecutionModes
  /\ script = [l \in ListenerIds |-> NoScript]
  /\ promises = <<>>
  /\ handlers = <<>>
  /\ emitted = <<>>
  /\ lastOp = Op("init", 0, 0)
  /\ InitProg

NextModes ==
  \/ StartCLI
  \/ \E k \in KindIds : RequestObserved(k)
  \/ \E k \in KindIds : ResponseObserved(k)
  \/ \E d \in ApprovalDecisions : handleApprovalDecision(d)
  \/ \E r \in 1..MaxRequests : BodyRead(r)
  \/ CaptureOn
  \/ CaptureOff

SpecModes == InitModes /\ [][NextModes]_vars

(***************************************************************************)
(* Functions applied to arguments: assessRisk                              *)
(***************************************************************************)
RiskMethods == {M_DELETE, M_PUT, M_PATCH, M_GET, M_POST, toLowerCase(M_DELETE), toLowerCase(M_PATCH)}

RiskUrls ==
  {T_https \o H_x \o <<"/","a","p","i","/","i","t","e","m","s">>,
   T_https \o H_x \o <<"/","p","r","o","d","u","c","t","s">>,
   T_https \o H_x \o <<"/","a","p","i","/","c","h","e","c","k","o","u","t">>,
   T_https \o H_x \o <<"/","A","P","I","/","C","h","e","c","k","o","u","t">>,
   T_https \o H_x \o <<"/","p","a","y","m","e","n","t">>,
   T_https \o H_x \o <<"/","r","e","o","r","d","e","r">>,
   T_https \o H_x \o <<"/","p","u","r","c","h","a","s","e">>,
   T_https \o H_x \o <<"/","b","i","l","l","i","n","g">>,
   T_https \o H_x \o <<"/","s","u","b","s","c","r","i","p","t","i","o","n">>,
   T_https \o H_x \o <<"/","u","s","e","r","s","/","7","/","d","e","l","e","t","e">>,
   T_https \o H_x \o <<"/","u","s","e","r","s","/","/","d","e","l","e","t","e">>,
   T_https \o H_x \o <<"/","u","s","e","r","s","/","a","/","b","/","d","e","l","e","t","e">>,
   T_https \o H_x \o <<"/","A","c","c","o","u","n","t","/","C","l","o","s","e">>,
   T_https \o H_x \o <<"/","a","c","c","o","u","n","t","/","d","e","l","e","t","e">>,
   T_https \o H_x \o <<"/","a","u","t","h","/","x">>,
   T_https \o H_x \o <<"/","a","u","t","h">>,
   T_https \o H_x \o <<"/","l","o","g","i","n">>,
   T_https \o H_x \o <<"/","l","o","g","o","u","t">>,
   T_https \o H_x \o <<"/","r","e","g","i","s","t","e","r">>}

\* assessRisk(method, url) is called
CallAssessRisk(method, url) ==
  /\ input' = [fn |-> "assessRisk", method |-> method, url |-> url]
  /\ output' = assessRisk(method, url)
  /\ lastOp' = Op("assessRisk", 0, 0)
  /\ emitted' = <<>>
  /\ UNCHANGED <<agentVars, script, promises, handlers, recVars, orchVars, appVars, exploreVars,
                 flows, flowObjects, currentFlow, clock>>

(***************************************************************************)
(* Functions applied to arguments: the same-site test of shouldCapture     *)
(***************************************************************************)
SiteUrls ==
  {T_https \o <<"x",".","c","o","m">> \o P_items,
   T_https \o <<"w","w","w",".","x",".","c","o","m">> \o P_items,
   T_https \o <<"a","p","i",".","x",".","c","o","m">> \o P_items,
   T_https \o <<"a",".","b",".","x",".","c","o","m">> \o P_items,
   T_https \o <<"c","d","n",".","y",".","c","o","m">> \o P_items,
   T_https \o <<"n","o","t","x",".","c","o","m">> \o P_items,
   T_https \o <<"x",".","c","o","m",".","e","v","i","l",".","o","r","g">> \o P_items,
   T_https \o <<"l","o","c","a","l","h","o","s","t",":","3","0","0","0">> \o P_items,
   T_https \o <<"a","p","i",".","l","o","c","a","l","h","o","s","t">> \o P_items,
   T_https \o <<"c","o","m">> \o P_items,
   T_https \o <<"e","v","i","l",".","c","o",".","u","k">> \o P_items,
   T_https \o <<"a","p","p",".","x",".","c","o",".","u","k">> \o P_items}

SiteBaseUrls ==
  {T_https \o <<"w","w","w",".","x",".","c","o","m">> \o <<"/">>,
   T_https \o <<"x",".","c","o","m">> \o <<"/">>,
   T_https \o <<"l","o","c","a","l","h","o","s","t",":","3","0","0","0">> \o <<"/">>,
   T_https \o <<"a","p","p",".","x",".","c","o",".","u","k">> \o <<"/">>}

\* startCapture({baseUrl, includeThirdParty}) and then the same-site test
\* of shouldCapture on a request to url
CallSameSite(url, baseUrl, thirdParty) ==
  /\ input' = [fn |-> "sameSite", url |-> url, baseUrl |-> baseUrl, thirdParty |-> thirdParty]
  /\ output' = SameSitePolicy(url, thirdParty, getBaseDomain(baseUrl))
  /\ lastOp' = Op("sameSite", 0, 0)
  /\ emitted' = <<>>
  /\ UNCHANGED <<agentVars, script, promises, handlers, recVars, orchVars, appVars, exploreVars,
                 flows, flowObjects, currentFlow, clock>>

(***************************************************************************)
(* Functions applied to arguments: truncate                                *)
(***************************************************************************)
TruncateLimit == 20000

\* the characters after the slice in the template literal of truncate
Marker == <<"U+00E2", "U+20AC", "U+00A6">>

\* a value of type string | undefined
Undefined == [defined |-> FALSE, text |-> <<>>]
Str(s) == [defined |-> TRUE, text |-> s]

\* String.prototype.trim
trim(s) ==
  IF \A i \in 1..Len(s) : s[i] \in WhiteSpace THEN <<>>
  ELSE LET first == CHOOSE i \in 1..Len(s) :
                      s[i] \notin WhiteSpace /\ \A j \in 1..(i - 1) : s[j] \in WhiteSpace
           last == CHOOSE i \in 1..Len(s) :
                     s[i] \notin WhiteSpace /\ \A j \in (i + 1)..Len(s) : s[j] \in WhiteSpace
       IN  SubSeq(s, first, last)

\* truncate that keeps the white space around the value
truncate_noTrim(value) ==
  IF ~value.defined \/ value.text = <<>> THEN Undefined
  ELSE IF Len(value.text) <= TruncateLimit THEN value
  ELSE Str(SubSeq(value.text, 1, TruncateLimit) \o Marker)

truncate(value) ==
  IF ~value.defined \/ value.text = <<>> THEN Undefined
  ELSE LET trimmed == trim(value.text)
       IN  IF Len(trimmed) <= TruncateLimit THEN Str(trimmed)
           ELSE Str(SubSeq(trimmed, 1, TruncateLimit) \o Marker)

MaxSlack == 2         \* characters of a body below and above the limit
MaxPad == 1           \* white space before and after the text of a body

BodyChars == <<"0", "1", "2", "3", "4", "5", "6", "7", "8", "9">>

\* a body of n characters between lead and trail spaces
Body(lead, n, trail) ==
  [i \in 1..lead |-> " "] \o [i \in 1..n |-> BodyChars[(i % 10) + 1]] \o [i \in 1..trail |-> " "]

\* the bodies applied to truncate: none, and the bodies of each shape
BodyShapes ==
  {<<0, 0, 0>>} \cup
  {<<1, lead, n, trail>> :
     lead \in 0..MaxPad, trail \in 0..MaxPad,
     n \in (0..MaxSlack) \cup ((TruncateLimit - MaxSlack)..(TruncateLimit + MaxSlack))}

Bodies ==
  [k \in BodyShapes |-> IF k[1] = 0 THEN Undefined ELSE Str(Body(k[2], k[3], k[4]))]

TruncateTable == [k \in BodyShapes |-> truncate(Bodies[k])]

\* truncate on the post data of a request or on the text of a response
CallTruncate(k) ==
  /\ input' = [fn |-> "truncate", value |-> Bodies[k]]
  /\ output' = TruncateTable[k]
  /\ lastOp' = Op("truncate", 0, 0)
  /\ emitted' = <<>>
  /\ UNCHANGED <<agentVars, script, promises, handlers, recVars, orchVars, appVars, exploreVars,
                 flows, flowObjects, currentFlow, clock>>

(***************************************************************************)
(* Functions applied to arguments: the execution order                     *)
(***************************************************************************)
\* lines 492-522 on the candidates of a page and a plan
CallOrderedCandidates(page, plan) ==
  /\ input' = [fn |-> "order", candidates |-> getNavigationCandidates(page), plan |-> plan]
  /\ output' = OrderedCandidates(getNavigationCandidates(page), plan)
  /\ lastOp' = Op("order", 0, 0)
  /\ emitted' = <<>>
  /\ UNCHANGED <<agentVars, script, promises, handlers, recVars, orchVars, appVars, exploreVars,
                 flows, flowObjects, currentFlow, clock>>

(***************************************************************************)
(* Functions applied to arguments: the response handler after the gate     *)
(***************************************************************************)
\* a request URL with a scheme and one that new URL does not parse
HandledUrls == {T_https \o H_x \o P_items, H_x \o P_items}
ContentTypes == {"application/json", "text/plain", "image/png"}

\* the response handler of NetworkRecorder.start from the call of
\* shouldCapture on, for an xhr request to url while capture is active:
\* how the handler ends, whether it pushed the call, and the responseBody
\* of the call.  new URL(info.url) is called in shouldCapture outside any
\* try block; safeResponseBody catches what response.text() throws
HandlerTail(url, thirdParty, baseDomain, contentType, readable) ==
  IF ~thirdParty /\ baseDomain # <<>> /\ ~ValidUrl(url)
    THEN [end |-> "throws", pushed |-> FALSE, responseBody |-> "none"]
  ELSE IF ~SameSitePolicy(url, thirdParty, baseDomain)
    THEN [end |-> "returns", pushed |-> FALSE, responseBody |-> "none"]
  ELSE [end |-> "returns", pushed |-> TRUE,
        responseBody |-> IF contentType \in {"application/json", "text/plain"} /\ readable
                           THEN "text" ELSE "undefined"]

CallHandlerTail(url, thirdParty, baseDomain, contentType, readable) ==
  /\ input' = [fn |-> "response", url |-> url, thirdParty |-> thirdParty,
               baseDomain |-> baseDomain, contentType |-> contentType,
               readable |-> readable]
  /\ output' = HandlerTail(url, thirdParty, baseDomain, contentType, readable)
  /\ lastOp' = Op("response", 0, 0)
  /\ emitted' = <<>>
  /\ UNCHANGED <<agentVars, script, promises, handlers, recVars, orchVars, appVars, exploreVars,
                 flows, flowObjects, currentFlow, clock>>

NextUnit ==
  \/ \E method \in RiskMethods, url \in RiskUrls : CallAssessRisk(method, url)
  \/ \E url \in HandledUrls, tp \in BOOLEAN, bd \in {<<>>, H_x}, ct \in ContentTypes,
        readable \in BOOLEAN : CallHandlerTail(url, tp, bd, ct, readable)
  \/ \E url \in SiteUrls, baseUrl \in SiteBaseUrls, tp \in BOOLEAN : CallSameSite(url, baseUrl, tp)
  \/ \E k \in BodyShapes : CallTruncate(k)
  \/ \E page \in Pages : \E plan \in Plans(getNavigationCandidates(page)) :
       CallOrderedCandidates(page, plan)

SpecUnit == Init /\ [][NextUnit]_vars

(***************************************************************************)
(* Properties                                                              *)
(***************************************************************************)
Kinds == {"approval", "action", "next_steps"}
Outstanding(kind) == {p \in DOMAIN promises : promises[p].kind = kind /\ Pending(p)}
IsPrefix(a, b) == Len(a) <= Len(b) /\ SubSeq(b, 1, Len(a)) = a
AskedApproval(evs, r) ==
  \E i \in DOMAIN evs : evs[i].type = "approval_required" /\ evs[i].id = r

\* the method, hostname and pathname of each call the page can make
KeyParts ==
  [c \in CallShapes |-> <<c.method, Hostname(Urls[c.url]), Pathname(Urls[c.url])>>]
DedupKey(call) == KeyParts[[method |-> call.method, url |-> call.url]]
CallOf(hs, r) ==
  [method |-> RequestKinds[hs[r].kind].method, url |-> RequestKinds[hs[r].kind].url, req |-> r]

\* C1: in every mode a high-risk call of handleNetworkCall emits
\* approval_required and stays suspended; it returns only in a step that is a
\* resolveApproval, and what it returns is the decision given to that call
HighRiskAlwaysGated ==
  [][\A r \in DOMAIN handlers' :
       handlers'[r].risk = "high" =>
         /\ r \notin DOMAIN handlers =>
              /\ AskedApproval(emitted', r)
              /\ handlers'[r].ret = "none"
              /\ handlers'[r].pc = "awaitApproval"
              /\ resolver' = handlers'[r].promise
         /\ (r \in DOMAIN handlers /\ handlers[r].ret = "none" /\ handlers'[r].ret # "none") =>
              /\ lastOp'.op = "resolveApproval"
              /\ resolver = handlers[r].promise
              /\ handlers'[r].ret = lastOp'.arg]_vars

\* C1 witness: a high-risk call made in OBSERVE_ONLY mode has returned the
\* decision "doc" while another high-risk call made in DOCUMENT_ONLY mode is
\* still suspended
HighRiskGatedWitness ==
  \E r1, r2 \in DOMAIN handlers :
    /\ handlers[r1].risk = "high" /\ handlers[r1].mode = "OBSERVE_ONLY"
    /\ handlers[r1].ret = "doc"
    /\ handlers[r2].risk = "high" /\ handlers[r2].mode = "DOCUMENT_ONLY"
    /\ handlers[r2].pc = "awaitApproval"

\* C2: a medium-risk call asks for approval exactly when the mode is EXECUTE;
\* a medium-risk call in another mode and a low-risk call in any mode emit no
\* approval_required, park nothing and return null at once
MediumGatedOnlyInExecute ==
  [][\A r \in DOMAIN handlers' \ DOMAIN handlers :
       LET h == handlers'[r]
       IN  /\ (h.risk = "medium" /\ mode = "EXECUTE") =>
                /\ AskedApproval(emitted', r)
                /\ h.promise = Len(promises) + 1
                /\ resolver' = h.promise
                /\ h.ret = "none" /\ h.pc = "awaitApproval"
           /\ ((h.risk = "medium" /\ mode # "EXECUTE") \/ h.risk = "low") =>
                /\ ~AskedApproval(emitted', r)
                /\ resolver' = resolver
                /\ promises' = promises
                /\ h.promise = 0
                /\ h.ret = "null" /\ h.pc # "awaitApproval"]_vars

\* C2 witness: one medium-risk call was gated in EXECUTE mode and another
\* returned null in DOCUMENT_ONLY mode
MediumGateWitness ==
  \E r1, r2 \in DOMAIN handlers :
    /\ handlers[r1].risk = "medium" /\ handlers[r1].mode = "EXECUTE"
    /\ handlers[r1].pc = "awaitApproval"
    /\ handlers[r2].risk = "medium" /\ handlers[r2].mode = "DOCUMENT_ONLY"
    /\ handlers[r2].ret = "null"

\* C3: resolveApproval with an empty slot changes nothing; with a parked
\* request it settles that one promise with the decision given and empties
\* the slot; an approval promise changes only in a resolveApproval step
ResolveApprovalContract ==
  [][/\ (lastOp'.op = "resolveApproval" /\ resolver = 0) =>
          UNCHANGED <<agentVars, promises, handlers>>
     /\ (lastOp'.op = "resolveApproval" /\ resolver # 0) =>
          /\ Pending(resolver)
          /\ promises' = [promises EXCEPT ![resolver] =
                            [kind |-> "approval", state |-> "resolved", value |-> lastOp'.arg]]
          /\ resolver' = 0
     /\ \A p \in DOMAIN promises :
          (promises[p].kind = "approval" /\ promises'[p] # promises[p]) =>
            (lastOp'.op = "resolveApproval" /\ Pending(p))]_vars

\* C3 witness: a resolveApproval that found the slot empty, after an earlier
\* one resolved a request with "no"
ResolveApprovalWitness ==
  /\ lastOp.op = "resolveApproval" /\ lastOp.p = 0
  /\ resolver = 0
  /\ \E p \in DOMAIN promises :
       promises[p].kind = "approval" /\ promises[p].state = "resolved" /\ promises[p].value = "no"

\* C4: a request issued while one of its kind is parked takes the slot; a
\* resolve settles only the promise in the slot, which is the latest request
\* of its kind; a pending promise that lost the slot stays pending for ever
Superseded(ps, kind, slot, p) == ps[p].kind = kind /\ ps[p].state = "pending" /\ slot # p
SlotOverwrite ==
  [][\A kind \in Kinds :
       /\ \A p \in DOMAIN promises' \ DOMAIN promises :
            promises'[p].kind = kind => SlotOf(kind)' = p
       /\ \A p \in DOMAIN promises :
            /\ promises'[p] # promises[p] =>
                 (promises[p].kind # kind \/
                    (SlotOf(kind) = p /\ \A q \in DOMAIN promises : promises[q].kind = kind => q <= p))
            /\ Superseded(promises, kind, SlotOf(kind), p) =>
                 Superseded(promises', kind, SlotOf(kind)', p)]_vars

\* C4 witness: an action-decision request was superseded and is still
\* pending after the later request was resolved
SlotOverwriteWitness ==
  \E p, q \in DOMAIN promises :
    /\ p < q
    /\ promises[p].kind = "action" /\ promises[q].kind = "action"
    /\ Pending(p) /\ promises[q].state = "resolved"
    /\ actionResolver = 0

\* C5: in every reachable state each kind of decision has at most one
\* outstanding request
AtMostOneOutstanding == \A kind \in Kinds : Cardinality(Outstanding(kind)) <= 1

\* the listener array after the listeners of snapshot did what they do, in
\* order, to cur
RECURSIVE AfterListeners(_, _, _)
AfterListeners(scr, snapshot, cur) ==
  IF snapshot = <<>> THEN cur
  ELSE LET b == scr[Head(snapshot)]
       IN  AfterListeners(scr, Tail(snapshot),
             IF b.do = "on" /\ Len(cur) < MaxListeners THEN Append(cur, b.arg)
             ELSE IF b.do = "off" THEN Filter(cur, b.arg)
             ELSE cur)

\* C6: emit invokes exactly the listeners registered when it was called,
\* each registration once and in registration order; what listeners
\* subscribed or unsubscribed during the dispatch shows in the array
\* afterwards, which the next emit uses
EmitSnapshot ==
  [][lastOp'.op = "emit" =>
       /\ emitted'[1].to = listeners
       /\ listeners' = AfterListeners(script, listeners, listeners)]_vars

\* C6 witness: an emit whose dispatch invoked two listeners and left a
\* listener array that has gained one listener and lost another
EmitSnapshotWitness ==
  /\ lastOp.op = "emit"
  /\ Len(emitted[1].to) >= 2
  /\ \E l \in ListenerIds :
       /\ l \in {listeners[i] : i \in DOMAIN listeners}
       /\ l \notin {emitted[1].to[i] : i \in DOMAIN emitted[1].to}
  /\ \E l \in ListenerIds :
       /\ l \notin {listeners[i] : i \in DOMAIN listeners}
       /\ l \in {emitted[1].to[i] : i \in DOMAIN emitted[1].to}

\* the filter in the words of the claim
PassesFilter(k) ==
  /\ RequestKinds[k].resourceType \in {"xhr", "fetch"}
  /\ isSameSite(Hostname(Urls[RequestKinds[k].url]), BaseDomain)
FilterTable == [k \in KindIds |-> PassesFilter(k)]

SessionDedup ==
  /\ Cardinality(captureUniqueKeys) = Len(sessionCalls)
  /\ \A i, j \in DOMAIN sessionCalls :
       i # j => DedupKey(sessionCalls[i]) # DedupKey(sessionCalls[j])

\* C8 witness: two calls of one endpoint were captured, and one retained
SessionDedupWitness ==
  /\ Len(capturedCalls) = 2
  /\ DedupKey(capturedCalls[1]) = DedupKey(capturedCalls[2])
  /\ Len(sessionCalls) = 1
  /\ Cardinality(captureUniqueKeys) = 1

\* C9 as stated: of the captured responses that share a dedup key the one
\* observed first is the one in the documentation list
FirstObservedRetained ==
  \A i \in DOMAIN sessionCalls :
    \A r \in DOMAIN handlers :
      (handlers[r].produced /\ DedupKey(CallOf(handlers, r)) = DedupKey(sessionCalls[i]))
        => sessionCalls[i].req <= r

\* C9 amended: every call that passes the filter is appended to the
\* recorder's list; of the calls that share a dedup key the first one
\* delivered to the session's capture listener enters the documentation list
\* and stays, every later one is left out
FirstDeliveredRetained ==
  [][/\ IsPrefix(sessionCalls, sessionCalls')
     /\ \A r \in DOMAIN handlers' :
          (handlers'[r].produced /\ (r \notin DOMAIN handlers \/ ~handlers[r].produced)) =>
            LET call == CallOf(handlers', r)
                seen == \E i \in DOMAIN sessionCalls : DedupKey(sessionCalls[i]) = DedupKey(call)
            IN  /\ capturedCalls' = Append(capturedCalls, call)
                /\ sessionCalls' = IF onCapture /\ ~seen THEN Append(sessionCalls, call)
                                                        ELSE sessionCalls]_vars

\* C9 witness: the call retained for an endpoint was observed after the
\* one that was left out, and both are in the recorder's list
FirstDeliveredWitness ==
  /\ Len(capturedCalls) = 2 /\ Len(sessionCalls) = 1
  /\ capturedCalls[1] = sessionCalls[1]
  /\ DedupKey(capturedCalls[1]) = DedupKey(capturedCalls[2])
  /\ capturedCalls[1].req > capturedCalls[2].req

CaptureSameInEveryMode ==
  \A r \in DOMAIN handlers :
    LET h == handlers[r]
    IN  (h.risk # "high" /\ (h.pc = "done" \/ (h.pc = "awaitApproval" /\ resolver # h.promise)))
          => (h.produced <=> (h.seenActive /\ FilterTable[h.kind]))

\* C16: setMode(m) can be called in every state for every mode m; it sets
\* the mode to m, emits one mode_change event that carries m and nothing
\* else, and leaves the listeners and the three decision slots as they
\* were; a step that is not a setMode leaves the mode as it was
SetModeFrame ==
  /\ [](\A m \in ExecutionModes : ENABLED setMode(m))
  /\ [][/\ lastOp'.op = "setMode"
             => /\ mode' = lastOp'.arg
                /\ Len(emitted') = 1
                /\ emitted'[1].type = "mode_change" /\ emitted'[1].id = lastOp'.arg
                /\ emitted'[1].to = listeners
                /\ listeners' = listeners
                /\ resolver' = resolver
                /\ actionResolver' = actionResolver
                /\ nextStepsResolver' = nextStepsResolver
                /\ promises' = promises /\ handlers' = handlers
        /\ lastOp'.op # "setMode"
             => /\ mode' = mode
                /\ \A i \in DOMAIN emitted' : emitted'[i].type # "mode_change"]_vars

\* the mode was set to EXECUTE while a handler was waiting for an approval
SetModeFrameWitness ==
  /\ lastOp.op = "setMode"
  /\ mode = "EXECUTE"
  /\ resolver # 0
  /\ \E r \in DOMAIN handlers : handlers[r].pc = "awaitApproval" /\ handlers[r].mode = "EXECUTE"
  /\ emitted = <<Event("mode_change", "EXECUTE", listeners)>>

\* C17 (as stated): the documentation list and the key set live for one
\* capture session, so a capture session that starts finds both empty
AccumulatorPerSession ==
  [][(~captureActive /\ captureActive')
       => (sessionCalls' = <<>> /\ captureUniqueKeys' = {})]_vars

\* C17 (amended): the documentation list and the key set live for the whole
\* run of the agent: no step removes a call or a key, so a capture session
\* that starts after a finalize begins with the calls and keys of the
\* sessions before it
AccumulatorForRun ==
  [][/\ IsPrefix(sessionCalls, sessionCalls')
     /\ captureUniqueKeys \subseteq captureUniqueKeys'
     /\ (~captureActive /\ captureActive')
          => (sessionCalls' = sessionCalls /\ captureUniqueKeys' = captureUniqueKeys)]_vars

\* a second capture session has started and captured nothing yet, and the
\* documentation list holds a call of the session before it
AccumulatorForRunWitness ==
  /\ lastOp.op \in {"captureOn", "loggedIn"}
  /\ captureActive /\ recorderActive
  /\ capturedCalls = <<>>
  /\ sessionCalls # <<>>
  /\ \A r \in DOMAIN handlers : handlers[r].pc = "done"

\* the last two labels of a host name, the whole name when it has fewer
LastTwoLabels(host) ==
  LET parts == SplitDots(host)
      n == Len(parts)
  IN  IF n <= 2 THEN host ELSE parts[n - 1] \o <<".">> \o parts[n]

\* C18 (as stated): without third-party inclusion a request passes exactly
\* when the last two labels of its host are the last two labels of the host
\* of the base URL; with third-party inclusion every host passes
SameSiteIffSharedBase ==
  input.fn = "sameSite" =>
    output = (input.thirdParty
              \/ LastTwoLabels(Hostname(input.url)) = LastTwoLabels(Hostname(input.baseUrl)))

\* C18 (amended): without third-party inclusion a request passes exactly
\* when its host is the base domain or ends with a dot and the base domain,
\* the base domain being the last two labels of the host of the base URL,
\* or that host itself when it has at most two labels; with third-party
\* inclusion every host passes
SameSiteIffSuffix ==
  input.fn = "sameSite" =>
    LET host == Hostname(input.url)
        base == LastTwoLabels(Hostname(input.baseUrl))
    IN  output = (\/ input.thirdParty
                  \/ host = base
                  \/ /\ Len(host) > Len(base)
                     /\ SubSeq(host, Len(host) - Len(base), Len(host)) = <<".">> \o base)

\* a host under a base host of one label passed, though its last two labels
\* are not those of the base host
SameSiteIffSuffixWitness ==
  /\ input.fn = "sameSite"
  /\ ~input.thirdParty
  /\ output = TRUE
  /\ Len(SplitDots(Hostname(input.baseUrl))) = 1
  /\ Hostname(input.url) # Hostname(input.baseUrl)

\* C19 (as stated): a stored body is never longer than the cap and the
\* marker; a body of at most the cap is stored without the marker and a
\* longer body as its first 20,000 characters followed by the marker
TruncateFirstChars ==
  (input.fn = "truncate" /\ output.defined) =>
    /\ Len(output.text) <= TruncateLimit + Len(Marker)
    /\ Len(input.value.text) <= TruncateLimit => ~endsWith(output.text, Marker)
    /\ Len(input.value.text) > TruncateLimit =>
         output.text = SubSeq(input.value.text, 1, TruncateLimit) \o Marker

\* C19 (amended): an absent or empty body is not stored; otherwise the body
\* is first stripped of the white space around it, stored as is when at most
\* 20,000 characters remain, and otherwise as the first 20,000 of the
\* remaining characters followed by the marker, so that a stored body is
\* never longer than the cap and the marker
TruncateAfterTrim ==
  input.fn = "truncate" =>
    IF ~input.value.defined \/ input.value.text = <<>> THEN ~output.defined
    ELSE LET trimmed == trim(input.value.text)
         IN  /\ output.defined
             /\ Len(output.text) <= TruncateLimit + Len(Marker)
             /\ Len(trimmed) <= TruncateLimit => output.text = trimmed
             /\ Len(trimmed) > TruncateLimit =>
                  output.text = SubSeq(trimmed, 1, TruncateLimit) \o Marker

\* a body longer than the cap, with white space before it, was cut
TruncateAfterTrimWitness ==
  /\ input.fn = "truncate"
  /\ input.value.defined
  /\ Len(input.value.text) > TruncateLimit
  /\ input.value.text[1] \in WhiteSpace
  /\ output.defined
  /\ endsWith(output.text, Marker)
  /\ Len(output.text) = TruncateLimit + Len(Marker)

(***************************************************************************)
(* FlowTracker                                                             *)
(***************************************************************************)
MaxFlows == 2         \* flow objects made in one run
MaxSteps == 1         \* steps of one flow
MaxClock == 1         \* readings of the clock

FlowNames == {"Login", "Untitled Flow"}

\* { name, steps: [], startTime: Date.now() }; endTime is absent
NewFlow(name) == [name |-> name, steps |-> <<>>, startTime |-> clock, endTime |-> {}]

\* Map.prototype.set: a present key keeps its place and takes the value
MapSet(map, key, value) ==
  IF \E i \in 1..Len(map) : map[i].key = key
    THEN [i \in 1..Len(map) |-> IF map[i].key = key THEN [key |-> key, value |-> value] ELSE map[i]]
  ELSE Append(map, [key |-> key, value |-> value])

flowFixed == <<agentVars, script, promises, handlers, recVars, orchVars, appVars, exploreVars,
               output>>

\* startFlow that ends the flow it replaces
startFlow_closing(name) ==
  /\ Len(flowObjects) < MaxFlows
  /\ flowObjects' = Append(IF currentFlow = 0 THEN flowObjects
                            ELSE [flowObjects EXCEPT ![currentFlow].endTime = {clock}],
                            NewFlow(name))
  /\ flows' = MapSet(flows, name, Len(flowObjects) + 1)
  /\ currentFlow' = Len(flowObjects) + 1
  /\ lastOp' = Op("startFlow", 0, 0)
  /\ input' = [fn |-> "startFlow", name |-> name]
  /\ emitted' = <<>>
  /\ UNCHANGED <<clock, flowFixed>>

startFlow(name) ==
  /\ Len(flowObjects) < MaxFlows
  /\ flowObjects' = Append(flowObjects, NewFlow(name))
  /\ flows' = MapSet(flows, name, Len(flowObjects) + 1)
  /\ currentFlow' = Len(flowObjects) + 1
  /\ lastOp' = Op("startFlow", 0, 0)
  /\ input' = [fn |-> "startFlow", name |-> name]
  /\ emitted' = <<>>
  /\ UNCHANGED <<clock, flowFixed>>

\* the arguments of addStep: a step name alone, the arrays then being empty,
\* and a step name with one network call and one UI action
StepArgs ==
  {[stepName |-> "open", networkCalls |-> <<>>, uiActions |-> <<>>],
   [stepName |-> "submit",
    networkCalls |-> <<[method |-> "POST", url |-> "/api/login", status |-> 200, timestamp |-> 0]>>,
    uiActions |-> <<"click">>]}

\* the step pushed by addStep
FlowStep_bare(flowName, args) ==
  [name |-> flowName, step |-> args.stepName, timestamp |-> clock,
   networkCalls |-> <<>>, uiActions |-> <<>>]

FlowStep(flowName, args) ==
  [name |-> flowName, step |-> args.stepName, timestamp |-> clock,
   networkCalls |-> args.networkCalls, uiActions |-> args.uiActions]

\* addStep, with the call of startFlow("Untitled Flow") when no flow is current
addStep(args) ==
  LET started == currentFlow = 0
      objects == IF started THEN Append(flowObjects, NewFlow("Untitled Flow")) ELSE flowObjects
      current == IF started THEN Len(flowObjects) + 1 ELSE currentFlow
      step == FlowStep(objects[current].name, args)
  IN  /\ started => Len(flowObjects) < MaxFlows
      /\ Len(objects[current].steps) < MaxSteps
      /\ flowObjects' = [objects EXCEPT ![current].steps = Append(@, step)]
      /\ flows' = IF started THEN MapSet(flows, "Untitled Flow", current) ELSE flows
      /\ currentFlow' = current
      /\ lastOp' = Op("addStep", 0, 0)
      /\ input' = [fn |-> "addStep", stepName |-> args.stepName,
                    networkCalls |-> args.networkCalls, uiActions |-> args.uiActions]
      /\ emitted' = <<>>
      /\ UNCHANGED <<clock, flowFixed>>

endFlow ==
  /\ IF currentFlow # 0
       THEN /\ flowObjects' = [flowObjects EXCEPT ![currentFlow].endTime = {clock}]
            /\ currentFlow' = 0
       ELSE UNCHANGED <<flowObjects, currentFlow>>
  /\ lastOp' = Op("endFlow", 0, 0)
  /\ input' = [fn |-> "endFlow"]
  /\ emitted' = <<>>
  /\ UNCHANGED <<flows, clock, flowFixed>>

\* time passes between two calls
Tick ==
  /\ clock < MaxClock
  /\ clock' = clock + 1
  /\ lastOp' = Op("tick", 0, 0)
  /\ emitted' = <<>>
  /\ UNCHANGED <<flows, flowObjects, currentFlow, input, flowFixed>>

NextFlow ==
  \/ \E name \in FlowNames : startFlow(name)
  \/ \E args \in StepArgs : addStep(args)
  \/ endFlow
  \/ Tick

SpecFlow == Init /\ [][NextFlow]_vars

\* C20: startFlow(name) makes a new flow with that name, without steps and
\* without an end time, the current flow and the flow stored under the name,
\* and leaves every earlier flow, the replaced current flow included, as it
\* was; endFlow() stamps the time on the current flow and clears the pointer,
\* and changes nothing when no flow is current; the current pointer is null
\* or one flow that has no end time
StartFlowEndFlow ==
  [][/\ lastOp'.op = "startFlow" =>
         /\ currentFlow' = Len(flowObjects) + 1
         /\ Len(flowObjects') = Len(flowObjects) + 1
         /\ flowObjects'[currentFlow'] =
              [name |-> input'.name, steps |-> <<>>, startTime |-> clock, endTime |-> {}]
         /\ \A i \in 1..Len(flowObjects) : flowObjects'[i] = flowObjects[i]
         /\ \E i \in 1..Len(flows') :
              flows'[i] = [key |-> input'.name, value |-> currentFlow']
     /\ lastOp'.op = "endFlow" =>
         IF currentFlow = 0
           THEN flowObjects' = flowObjects /\ currentFlow' = 0 /\ flows' = flows
         ELSE /\ currentFlow' = 0
              /\ flowObjects'[currentFlow].endTime = {clock}
              /\ Len(flowObjects') = Len(flowObjects)
              /\ \A i \in 1..Len(flowObjects) :
                   /\ i # currentFlow => flowObjects'[i] = flowObjects[i]
                   /\ flowObjects'[i].name = flowObjects[i].name
                   /\ flowObjects'[i].steps = flowObjects[i].steps
                   /\ flowObjects'[i].startTime = flowObjects[i].startTime
              /\ flows' = flows
     /\ currentFlow' # 0 =>
         /\ currentFlow' \in 1..Len(flowObjects')
         /\ flowObjects'[currentFlow'].endTime = {}
    ]_vars

\* a flow was replaced by startFlow before it was ended, and the flow that
\* replaced it was ended
StartFlowEndFlowWitness ==
  /\ lastOp.op = "endFlow"
  /\ currentFlow = 0
  /\ \E i, j \in 1..Len(flowObjects) :
       /\ i < j
       /\ flowObjects[i].endTime = {}
       /\ flowObjects[j].endTime # {}
       /\ flowObjects[j].startTime < clock

Running == (IF xpc \in InProgress THEN 1 ELSE 0) + overlapping

\* C22: at most one exploration run is in progress at any time
AtMostOneRun == Running <= 1

\* C23: while an exploration run is in progress the inactivity timer does
\* not finalize the capture session: capture is still active after the
\* timer has fired during the run
TimerSparesExploration ==
  (xpc \in InProgress /\ lastOp.op = "timer") => captureActive

\* C24: no CapturedCall is appended to the list of the recorder while
\* capture is inactive: when the handler of a response has appended its call
\* after reading the body, capture is active
AppendOnlyWhileActive ==
  (lastOp.op = "bodyRead" /\ handlers[lastOp.arg].produced) => recorderActive

\* C25: no failure of a step of the visit of a candidate aborts the
\* exploration run: exploreVisiblePages never rejects
VisitNeverAborts == xpc # "rejected"

\* C26: when the navigation to a candidate has failed, by the navigation
\* throwing or by the action finding nothing to click, the loop has moved on
\* to a later candidate or to its end: the candidate is not visited and gets
\* no exploration_insight
FailedNavigationSkips ==
  lastOp.op \in {"navigationFailed", "actionMissed"} =>
    /\ cursor > lastOp.arg
    /\ xpc \in {"decision", "navigating", "summary", "done"}

\* the members of a set of numbers in increasing order
Ascending(S) ==
  [n \in 1..Cardinality(S) |-> CHOOSE x \in S : Cardinality({y \in S : y < x}) = n - 1]

SkipListed(oc, skip, i) == toLowerCase(oc[i].label) \in skip

\* C28 (as stated): the loop never stops on a candidate of the skip list
\* that is not risky navigation, and never passes over a candidate of the
\* skip list that is risky navigation: that candidate goes to the decision
PlanSkipYieldsToGate ==
  [][cursor' # cursor =>
       /\ (xpc' \in {"decision", "navigating"} /\ SkipListed(orderedCandidates', skipLabels', cursor'))
            => isRiskyNavigation(orderedCandidates'[cursor']) /\ xpc' = "decision"
       /\ \A i \in (cursor + 1)..(cursor' - 1) :
            SkipListed(orderedCandidates', skipLabels', i)
              => ~isRiskyNavigation(orderedCandidates'[i])]_vars

\* C28 (amended): the loop never stops on a candidate of the skip list that
\* is not risky navigation; a candidate of the skip list that is risky
\* navigation is handled as if the list did not name it: the loop passes
\* over it only when its label is unsafe or its href was visited in this
\* run, and otherwise stops on it with the request for a decision
PlanSkipOnlyNeutral ==
  [][cursor' # cursor =>
       /\ (xpc' \in {"decision", "navigating"} /\ SkipListed(orderedCandidates', skipLabels', cursor'))
            => isRiskyNavigation(orderedCandidates'[cursor']) /\ xpc' = "decision"
       /\ \A i \in (cursor + 1)..(cursor' - 1) :
            (SkipListed(orderedCandidates', skipLabels', i)
               /\ isRiskyNavigation(orderedCandidates'[i]))
              => \/ isUnsafeLabel(orderedCandidates'[i].label)
                 \/ orderedCandidates'[i].href \in visited']_vars

\* the loop has passed over a candidate of the skip list whose label is
\* unsafe, and requests a decision for a later candidate of the skip list
\* that links to another host
PlanSkipOnlyNeutralWitness ==
  /\ xpc = "decision"
  /\ SkipListed(orderedCandidates, skipLabels, cursor)
  /\ ~isUnsafeLabel(orderedCandidates[cursor].label)
  /\ \E i \in 1..(cursor - 1) :
       /\ SkipListed(orderedCandidates, skipLabels, i)
       /\ isUnsafeLabel(orderedCandidates[i].label)

\* C29 (as stated): no href is passed to navigateSoft twice in one run.
\* A candidate j before the cursor that is neither risky navigation nor
\* named in the skip list was passed to navigateSoft unless its href was in
\* visited; visited only grows in a run, so when the loop now navigates to
\* the same href, candidate j was navigated to as well
NoHrefNavigatedTwice ==
  (xpc = "navigating" /\ orderedCandidates[cursor].href # <<>>)
    => ~\E j \in 1..(cursor - 1) :
          /\ orderedCandidates[j].href = orderedCandidates[cursor].href
          /\ ~isRiskyNavigation(orderedCandidates[j])
          /\ ~SkipListed(orderedCandidates, skipLabels, j)

\* C29 (amended): the loop never navigates to a candidate whose href is in
\* visited, and an href enters visited once, when navigateSoft returns for
\* it: no href is navigated to with success more than once in one run
VisitedHrefSkipped ==
  [][/\ (navigations' # navigations /\ orderedCandidates'[cursor'].href # <<>>)
          => orderedCandidates'[cursor'].href \notin visited'
     /\ lastOp'.op = "navigated"
          => /\ orderedCandidates[cursor].href \notin visited
             /\ visited' = IF orderedCandidates[cursor].href # <<>>
                              THEN visited \cup {orderedCandidates[cursor].href}
                              ELSE visited
     /\ (lastOp'.op # "navigated" /\ xpc # "idle")
          => visited' = visited]_vars

\* the loop has passed over a candidate that is neither unsafe, nor risky,
\* nor named in the skip list: its href is that of an earlier candidate and
\* is in visited
VisitedHrefSkippedWitness ==
  /\ xpc \in {"navigating", "decision"}
  /\ \E j \in 1..(cursor - 1) :
       /\ orderedCandidates[j].href \in visited
       /\ ~isRiskyNavigation(orderedCandidates[j])
       /\ ~SkipListed(orderedCandidates, skipLabels, j)
       /\ \E k \in 1..(j - 1) : orderedCandidates[k].href = orderedCandidates[j].href

\* C30: the call count of a page is the number of calls appended to the
\* list of the recorder between the watermark and the end of the settle
\* delay.  The calls after the watermark were all appended in that interval,
\* so the count is that number only if every call appended during the
\* settle delay lies after the watermark
DeltaHoldsSettleCalls ==
  [][(xpc = "settle" /\ xpc' = "settle" /\ Len(capturedCalls') = Len(capturedCalls) + 1)
       => Len(capturedCalls') > callCountBefore]_vars

\* an event of the given type is among the events of the last step
Emitted(type) == \E i \in DOMAIN emitted : emitted[i].type = type

\* C31: a run that has ended has emitted the exploration_summary event, as
\* the last of its exploration events, exactly when it visited a page; a
\* run without candidates ends with neither plan request nor summary
SummaryIffPageVisited ==
  /\ xpc \in {"done", "rejected"}
       => (Emitted("exploration_summary") <=> Len(pagesVisitedData) > 0)
  /\ (xpc = "done" /\ candidates = <<>>) => lastOp.op = "candidates"

\* C32: a run that has started reaches its end, and the loop takes up every
\* candidate of the execution order at most once: a decision request or a
\* navigation is for a candidate after the cursor, or it is the navigation
\* that follows the answer "yes" for the candidate at the cursor
RunTerminates ==
  /\ (xpc = "candidates") ~> (xpc \in {"done", "rejected"})
  /\ [][(navigations' # navigations \/ Len(promises') # Len(promises))
          => \/ cursor' > cursor
             \/ cursor' = cursor /\ xpc = "decision" /\ xpc' = "navigating"]_vars

\* the run has ended after the user answered a decision request, a
\* navigation failed and a page was visited
RunTerminatesWitness ==
  /\ xpc = "done"
  /\ Len(promises) > 0
  /\ failures > 0
  /\ Len(pagesVisitedData) > 0

\* C33: a failure of the reasoning service does not stop the run.  After a
\* plan request that failed the skip list is empty and the execution order
\* is the discovery order (the first candidate of each label, as in every
\* execution order); the step that follows the insight request emits the
\* exploration_insight event and goes on to the navigation back; the step
\* that follows the summary request emits the exploration_summary event
FailureKeepsRunGoing ==
  /\ (lastOp.op = "plan" /\ lastOp.p = 1)
       => LET low(label) == toLowerCase(label)
              first == {i \in DOMAIN candidates :
                          \A j \in 1..(i - 1) : low(candidates[j].label) # low(candidates[i].label)}
          IN  /\ orderedCandidates = [n \in 1..Cardinality(first) |-> candidates[Ascending(first)[n]]]
              /\ skipLabels = {}
              /\ xpc \in {"decision", "navigating", "summary", "done"}
  /\ lastOp.op = "insight" => Emitted("exploration_insight") /\ xpc = "back"
  /\ lastOp.op = "summary" => Emitted("exploration_summary") /\ xpc = "done"

\* the plan request failed for the page where two links have one label: the
\* run goes on and asks about the second candidate, the first being unsafe
FailureKeepsRunGoingWitness ==
  /\ lastOp.op = "plan" /\ lastOp.p = 1
  /\ xpc = "decision"
  /\ Len(orderedCandidates) < Len(candidates)
  /\ cursor = 2

\* C34: the response handler ends normally for every response: with a
\* request URL that does not parse, a body that cannot be read, or a content
\* type other than JSON and plain text, the call is pushed without the
\* responseBody or not pushed at all
HandlerNeverThrows ==
  input.fn = "response" =>
    /\ output.end = "returns"
    /\ (output.pushed /\ ~(input.readable /\ input.contentType \in {"application/json", "text/plain"}))
         => output.responseBody = "undefined"

FlagsAgree ==
  /\ [](captureActive = recorderActive /\ onCapture = captureActive)
  /\ [][(lastOp'.op \in {"captureOn", "loggedIn"} /\ captureActive)
          => capturedCalls' = capturedCalls /\ captureActive']_vars

\* the user asks for capture while it is active and the recorder holds a
\* call: the call is still on the list
FlagsAgreeWitness ==
  /\ lastOp.op = "captureOn"
  /\ captureActive /\ recorderActive /\ onCapture
  /\ capturedCalls # <<>>

\* C37: an approval request is parked only with its approval_required event
\* delivered to at least one subscribed listener, also for a gated response
\* observed during the initial navigation
ParkedApprovalDelivered ==
  (lastOp.op = "response" /\ handlers[lastOp.arg].pc = "awaitApproval")
    => \E i \in DOMAIN emitted :
         /\ emitted[i].type = "approval_required"
         /\ emitted[i].to # <<>>

\* C38: while no exploration run is in progress the exploring flag is
\* false, whichever way the last run ended
IdleMeansNotExploring ==
  xpc \in {"idle", "done", "rejected"} => ~exploring

getAllFlows == {flows[j].value : j \in DOMAIN flows}

\* C40: after any sequence of startFlow, addStep and endFlow every step
\* ever added is in a flow that getAllFlows returns, in the order of
\* insertion, and a current flow is the flow stored under its own name and
\* has no end time
StepsRetained ==
  /\ \A i \in DOMAIN flowObjects :
       flowObjects[i].steps # <<>> => i \in getAllFlows
  /\ currentFlow # 0 =>
       /\ \E j \in DOMAIN flows :
            flows[j] = [key |-> flowObjects[currentFlow].name, value |-> currentFlow]
       /\ flowObjects[currentFlow].endTime = {}

====
